---- MODULE Spec2Model ----
(***************************************************************************)
(* Speech sequence assembly and claim/release of audio chunks, as done by  *)
(* python/stt.py.                                                          *)
(*                                                                         *)
(* Two state machines share this module:                                   *)
(*   SpecAsm  one run of the generator get_speech_sequences over a chunk   *)
(*            stream handed out by the store cursor, one loop iteration    *)
(*            per step;                                                    *)
(*   Spec     workers running process_speech_sequences against one chunk   *)
(*            store: scan, claim_sequence, transcribe_sequence,            *)
(*            mark_as_transcribed / release_sequence.  update_many is one  *)
(*            step per document: the store applies it atomically to each   *)
(*            document, never to the whole set.                            *)
(* Optional values (Python None) are encoded as tuples: None is << >>,     *)
(* a present value x is <<x>>.                                             *)
(***************************************************************************)
EXTENDS Integers, Sequences, FiniteSets, TLC

None == << >>
Some(x) == <<x>>
Val(o) == o[1]

(***************************************************************************)
(* Bounds of the model.                                                    *)
(***************************************************************************)
\* longest chunk stream the cursor hands to one get_speech_sequences run
MaxStreamLen == 4
\* largest max_sequence_length / limit drawn for a run of the generator
MaxParam == 3
\* a max_sequence_length that no stream of the model reaches, also drawn
UncappedLen == 10
\* number of chunk documents in the store the workers share
NumChunks == 3
\* max_sequence_length of the workers' scans: the default of 30 (line 81),
\* scaled to the size of the store
MaxSeqLen == 2
\* transcription calls that fail, over one run
MaxFailures == 1

(***************************************************************************)
(* Program constants.                                                      *)
(***************************************************************************)
\* timedelta(seconds=600), the staleness threshold
StaleSeconds == 600
\* CHUNK_MAX_LEN, the nominal chunk length in seconds
CHUNK_MAX_LEN == 10
\* batch_size = min(limit if limit else 1000, 1000) with limit = None
batch_size == 1000

VARIABLES
    \* ---- get_speech_sequences (SpecAsm) ----
    g_pc,               \* "loop" (in the for loop), "break" / "exhausted" (loop
                        \* left by line 99 / by the cursor running out), "done"
    g_stream,           \* the chunks the cursor has handed out so far
    g_limit,            \* the limit argument (None or Some(n))
    g_maxlen,           \* the max_sequence_length argument
    sequences_by_id,    \* the dict, as its values in insertion order
    yielded,            \* the local counter
    g_out,              \* every sequence yielded so far, in order
    \* ---- the chunk store (Spec) ----
    processing_by,      \* audio_chunks: processing_by of each document
    claimed_at,         \* audio_chunks: claimed_at of each document
    transcribed_at,     \* audio_chunks: transcribed_at of each document
    transcriptions,     \* the transcriptions collection
    \* ---- process_speech_sequences, one per worker ----
    max_workers,        \* the max_workers argument (0: the worker is not started)
    wpc,                \* "scan", "run" (sequences of the scan in progress), "done",
                        \* "draining" (the pool shuts down after an exception)
    queue,              \* sequences of the current scan not yet handed out
    batch_processed,    \* sequences of the current scan that were not skipped
    \* ---- process_sequence, one invocation at a time per thread ----
    tpc,                \* "idle", "claim", "transcribe", "mark", "release", "returned"
                        \* (returned: process_sequence has returned status),
                        \* "raised" (an exception has left process_sequence)
    tseq,               \* the sequence argument
    todo,               \* documents the running update_many has yet to visit
    modified,           \* documents claim_sequence's update has modified
    status,             \* the status process_sequence returns
    caught,             \* the call whose exception the handler caught (lines 195, 202)
    \* ---- bookkeeping for the properties ----
    failures,           \* transcription and store calls that have failed
    holder,             \* per chunk: the thread whose claim set processing_by
    completions,        \* per chunk: sequences holding it that returned transcribed/empty
    \* ---- chunking.py and daemon.py, each a record of the fields it uses ----
    reader,             \* an AudioChunkReader and the frame of read / fetch_audio
    ingest,             \* source_files, audio_chunks and ingests_missing_sources
    finder,             \* server_side_cursor_find and the gateway answering it
    answer,             \* transcribe_sequence: the endpoint's answer and what is stored
    ejson               \* a value, its EJsonEncoder encoding and the decoding of that

asmvars == <<g_pc, g_stream, g_limit, g_maxlen, sequences_by_id, yielded, g_out>>

claimvars == <<processing_by, claimed_at, holder>>

loopvars == <<max_workers, wpc, queue, batch_processed>>

workervars ==
    <<claimvars, transcribed_at, transcriptions, loopvars, tpc, tseq, todo, modified,
      status, caught, failures, completions>>

libvars == <<reader, ingest, finder, answer, ejson>>

vars == <<asmvars, workervars, libvars>>

\* chunking.py and daemon.py are not running
LibIdle ==
    /\ reader = [pc |-> "idle"]
    /\ ingest = [pc |-> "idle"]
    /\ finder = [pc |-> "idle"]
    /\ answer = [pc |-> "idle"]
    /\ ejson = [pc |-> "idle"]

(***************************************************************************)
(* class SpeechSequence                                                    *)
(***************************************************************************)
SpeechSequence(oid, chs, cont) ==
    [original_id |-> oid, chunks |-> chs, is_partial |-> FALSE,
     is_continuation |-> cont]

last(seq) == seq.chunks[Len(seq.chunks)]

start(seq) == last(seq).start

min_index(seq) == last(seq).index

(***************************************************************************)
(* get_speech_sequences: the body of the for loop as a function of the     *)
(* generator's locals a = [by_id, yielded, out] and the observed chunk.    *)
(***************************************************************************)
\* position of the entry for oid in the dict, 0 when absent
Position(by_id, oid) ==
    IF \E i \in 1..Len(by_id) : by_id[i].original_id = oid
    THEN CHOOSE i \in 1..Len(by_id) : by_id[i].original_id = oid
    ELSE 0

\* del sequences_by_id[key] for the entry at position i
Delete(by_id, i) ==
    [k \in 1..(Len(by_id) - 1) |-> IF k < i THEN by_id[k] ELSE by_id[k + 1]]

IsStaleInclusive(seq, chunk) == start(seq) - chunk.start >= StaleSeconds

IsStaleNever(seq, chunk) == FALSE

\* line 106
IsStale(seq, chunk) == start(seq) - chunk.start > StaleSeconds

\* line 107
WorthYielding(seq) == ~seq.is_continuation \/ Len(seq.chunks) > 1

\* lines 105-110
StaleFlush(a, chunk) ==
    LET stale(s) == IsStale(s, chunk)
        fresh(s) == ~IsStale(s, chunk)
        yld == SelectSeq(SelectSeq(a.by_id, stale), WorthYielding)
    IN  [by_id |-> SelectSeq(a.by_id, fresh),
         yielded |-> a.yielded + Len(yld),
         out |-> a.out \o yld]

DiscontinuityMissed(by_id, chunk) == FALSE

DiscontinuousAscending(by_id, chunk) ==
    LET i == Position(by_id, chunk.original_id)
    IN  i # 0 /\ min_index(by_id[i]) + 1 # chunk.index

\* lines 117-122
Discontinuous(by_id, chunk) ==
    LET i == Position(by_id, chunk.original_id)
    IN  i # 0 /\ min_index(by_id[i]) - 1 # chunk.index

ContinuationUnflagged(chunk) == SpeechSequence(chunk.original_id, <<chunk>>, FALSE)

\* lines 141-146: the sequence that replaces a capped one
Continuation(chunk) == SpeechSequence(chunk.original_id, <<chunk>>, TRUE)

CapReachedStrict(seq, max_sequence_length) == Len(seq.chunks) > max_sequence_length

\* line 137
CapReached(seq, max_sequence_length) == Len(seq.chunks) >= max_sequence_length

\* lines 124-146
AppendOrCreate(a, chunk, max_sequence_length) ==
    LET i == Position(a.by_id, chunk.original_id)
        m == IF i = 0
             THEN Append(a.by_id, SpeechSequence(chunk.original_id, << >>, FALSE))
             ELSE a.by_id
        j == IF i = 0 THEN Len(m) ELSE i
        seq == [m[j] EXCEPT !.chunks = Append(@, chunk)]
    IN  IF CapReached(seq, max_sequence_length)
        THEN [by_id |-> [m EXCEPT ![j] = Continuation(chunk)],
              yielded |-> a.yielded + 1,
              out |-> Append(a.out, [seq EXCEPT !.is_partial = TRUE])]
        ELSE [by_id |-> [m EXCEPT ![j] = seq],
              yielded |-> a.yielded,
              out |-> a.out]

\* lines 101-146: one iteration of the for loop
ObserveChunk(a, chunk, max_sequence_length) ==
    LET a1 == StaleFlush(a, chunk)
        i == Position(a1.by_id, chunk.original_id)
    IN  IF Discontinuous(a1.by_id, chunk)
        THEN [by_id |-> Delete(a1.by_id, i),
              yielded |-> a1.yielded + 1,
              out |-> Append(a1.out, a1.by_id[i])]
        ELSE AppendOrCreate(a1, chunk, max_sequence_length)

\* line 98
LimitReached(limit, n) == limit # None /\ n >= Val(limit)

TerminalFlushWorthy(a, limit) ==
    IF limit = None \/ a.yielded < Val(limit)
    THEN a.out \o SelectSeq(a.by_id, WorthYielding)
    ELSE a.out

\* lines 150-156
TerminalFlush(a, limit) ==
    IF limit = None \/ a.yielded < Val(limit) THEN a.out \o a.by_id ELSE a.out

RECURSIVE ScanFrom(_, _, _, _, _)
ScanFrom(a, stream, k, limit, max_sequence_length) ==
    IF k > Len(stream) \/ LimitReached(limit, a.yielded)
    THEN a
    ELSE ScanFrom(ObserveChunk(a, stream[k], max_sequence_length),
                  stream, k + 1, limit, max_sequence_length)

\* the list of sequences one call yields for the chunk stream of its cursor
get_speech_sequences(stream, limit, max_sequence_length) ==
    TerminalFlush(
        ScanFrom([by_id |-> << >>, yielded |-> 0, out |-> << >>],
                 stream, 1, limit, max_sequence_length),
        limit)

(***************************************************************************)
(* SpecAsm: the generator run step by step.  The cursor hands out chunks   *)
(* sorted by start descending (line 95); which chunks the store holds is   *)
(* the input, drawn one chunk at a time.                                   *)
(***************************************************************************)
Originals == {"rec1", "rec2"}

Indices == {0, 1, 2}

\* start of the next document, relative to the previous one's: a chunk's
\* length, or the staleness threshold itself, so that differences of starts
\* fall below the threshold, on it and above it
Gaps == {CHUNK_MAX_LEN, StaleSeconds}

FirstStart == 2 * MaxStreamLen * StaleSeconds

NextChunks(stream) ==
    LET prev == IF stream = << >> THEN FirstStart + CHUNK_MAX_LEN
                ELSE stream[Len(stream)].start
    IN  {[id |-> Len(stream) + 1, original_id |-> o, index |-> i, start |-> prev - g] :
            o \in Originals, i \in Indices, g \in Gaps}

AsmLocals == [by_id |-> sequences_by_id, yielded |-> yielded, out |-> g_out]

AsmInit ==
    /\ g_pc = "loop"
    /\ g_stream = << >>
    /\ g_limit \in {None} \cup {Some(n) : n \in 1..MaxParam}
    /\ g_maxlen \in (1..MaxParam) \cup {UncappedLen}
    /\ sequences_by_id = << >>
    /\ yielded = 0
    /\ g_out = << >>

\* the cursor returns a document and the loop body runs on it
AsmObserve ==
    /\ g_pc = "loop"
    /\ Len(g_stream) < MaxStreamLen
    /\ ~LimitReached(g_limit, yielded)
    /\ \E chunk \in NextChunks(g_stream) :
          LET a == ObserveChunk(AsmLocals, chunk, g_maxlen)
          IN  /\ g_stream' = Append(g_stream, chunk)
              /\ sequences_by_id' = a.by_id
              /\ yielded' = a.yielded
              /\ g_out' = a.out
    /\ UNCHANGED <<g_pc, g_limit, g_maxlen, workervars, libvars>>

\* the cursor returns a document, but the limit is reached: break (line 98)
AsmBreak ==
    /\ g_pc = "loop"
    /\ LimitReached(g_limit, yielded)
    /\ g_pc' = "break"
    /\ UNCHANGED <<g_stream, g_limit, g_maxlen, sequences_by_id, yielded, g_out, workervars, libvars>>

\* the cursor is exhausted
AsmExhausted ==
    /\ g_pc = "loop"
    /\ g_pc' = "exhausted"
    /\ UNCHANGED <<g_stream, g_limit, g_maxlen, sequences_by_id, yielded, g_out, workervars, libvars>>

\* lines 150-156
AsmFlush ==
    /\ g_pc \in {"break", "exhausted"}
    /\ g_out' = TerminalFlush(AsmLocals, g_limit)
    /\ g_pc' = "done"
    /\ UNCHANGED <<g_stream, g_limit, g_maxlen, sequences_by_id, yielded, workervars, libvars>>

AsmNext == AsmObserve \/ AsmBreak \/ AsmExhausted \/ AsmFlush

(***************************************************************************)
(* Spec: the chunk store and the workers.                                  *)
(*                                                                         *)
(* The store holds NumChunks consecutive chunks of one recording, all      *)
(* flagged as speech.  Either one worker runs process_speech_sequences     *)
(* with max_workers = 2 (a pool of two threads), or two workers run it     *)
(* with max_workers = 1 each.  The store's operations do not raise; the    *)
(* transcription endpoint may fail.  Timestamps are never compared by the  *)
(* code: one opaque value, now, stands for datetime.now().                 *)
(***************************************************************************)
Workers == {"w1", "w2"}

Deployments == {[w \in Workers |-> IF w = "w1" THEN 2 ELSE 0], [w \in Workers |-> 1]}

Threads == {<<w, k>> : w \in Workers, k \in 1..2} \ {<<"w2", 2>>}

WorkerOf(t) == t[1]

Chunks == 0..(NumChunks - 1)

\* the stored document of chunk c, less its mutable fields
Doc(c) ==
    [id |-> c, original_id |-> "rec1", index |-> c, start |-> c * CHUNK_MAX_LEN]

vad_has_speech(c) == TRUE

now == "now"

Ids(seq) == {seq.chunks[k].id : k \in 1..Len(seq.chunks)}

NoSeq == SpeechSequence("", << >>, FALSE)

EligibleThoughTranscribed(c) == processing_by[c] = None /\ vad_has_speech(c)

\* lines 86-90: base_filters
Eligible(c) ==
    /\ transcribed_at[c] = None
    /\ processing_by[c] = None
    /\ vad_has_speech(c)

\* line 95: chunks.find(base_filters).sort('start', -1)
RECURSIVE SortedByStartDesc(_)
SortedByStartDesc(S) ==
    IF S = {} THEN << >>
    ELSE LET c == CHOOSE x \in S : \A y \in S : Doc(y).start <= Doc(x).start
         IN  <<Doc(c)>> \o SortedByStartDesc(S \ {c})

Cursor == SortedByStartDesc({c \in Chunks : Eligible(c)})

WorkerInit ==
    /\ processing_by = [c \in Chunks |-> None]
    /\ claimed_at = [c \in Chunks |-> None]
    /\ transcribed_at = [c \in Chunks |-> None]
    /\ transcriptions = {}
    /\ max_workers \in Deployments
    /\ wpc = [w \in Workers |-> IF max_workers[w] = 0 THEN "done" ELSE "scan"]
    /\ queue = [w \in Workers |-> << >>]
    /\ batch_processed = [w \in Workers |-> 0]
    /\ tpc = [t \in Threads |-> "idle"]
    /\ tseq = [t \in Threads |-> NoSeq]
    /\ todo = [t \in Threads |-> {}]
    /\ modified = [t \in Threads |-> {}]
    /\ status = [t \in Threads |-> ""]
    /\ failures = 0
    /\ caught = [t \in Threads |-> None]
    /\ holder = [c \in Chunks |-> None]
    /\ completions = [c \in Chunks |-> 0]

AsmIdle ==
    /\ g_pc = "done"
    /\ g_stream = << >>
    /\ g_limit = None
    /\ g_maxlen = 1
    /\ sequences_by_id = << >>
    /\ yielded = 0
    /\ g_out = << >>

(***************************************************************************)
(* process_speech_sequences                                                *)
(***************************************************************************)
\* lines 241 and 268-271: a scan.  The cursor's first batch holds every
\* matching document of a store this small, so the generator works on the
\* store as it was when the scan began.
ScanKeepsCount(w) ==
    /\ wpc[w] = "scan"
    /\ LET sequences == get_speech_sequences(Cursor, Some(batch_size), MaxSeqLen)
       IN  /\ queue' = [queue EXCEPT ![w] = sequences]
           /\ wpc' = [wpc EXCEPT ![w] =
                        IF max_workers[w] > 1 /\ sequences = << >> THEN "done" ELSE "run"]
    /\ UNCHANGED <<libvars, asmvars, claimvars, transcribed_at, transcriptions, max_workers,
                   batch_processed, tpc, tseq, todo, modified, status, caught, failures,
                   completions>>

Scan(w) ==
    /\ wpc[w] = "scan"
    /\ LET sequences == get_speech_sequences(Cursor, Some(batch_size), MaxSeqLen)
       IN  /\ queue' = [queue EXCEPT ![w] = sequences]
           /\ wpc' = [wpc EXCEPT ![w] =
                        IF max_workers[w] > 1 /\ sequences = << >> THEN "done" ELSE "run"]
    /\ batch_processed' = [batch_processed EXCEPT ![w] = 0]
    /\ UNCHANGED <<libvars, asmvars, claimvars, transcribed_at, transcriptions, max_workers, tpc, tseq,
                   todo, modified,
                   status, caught, failures, completions>>

\* lines 262-264 (one thread) and 267 (pool): the scan's sequences are all done
LoopEnd(w) ==
    /\ wpc[w] = "run"
    /\ queue[w] = << >>
    /\ \A t \in Threads : WorkerOf(t) = w => tpc[t] \in {"idle", "returned"}
    /\ wpc' = [wpc EXCEPT ![w] =
                 IF max_workers[w] = 1 /\ batch_processed[w] = 0 THEN "done" ELSE "scan"]
    /\ UNCHANGED <<libvars, asmvars, claimvars, transcribed_at, transcriptions, max_workers, queue, batch_processed,
                   tpc, tseq, todo, modified, status, caught, failures, completions>>

(***************************************************************************)
(* process_sequence                                                        *)
(***************************************************************************)
ClaimFilterDropped(c) == TRUE

\* claim_sequence, lines 161-164: the update's filter, for one document
ClaimFilter(c) == processing_by[c] = None

ClaimSucceededAny(n, seq) == n > 0

\* claim_sequence, line 167
ClaimSucceeded(n, seq) == n = Len(seq.chunks)

ReleaseSetKeepsClaimedAt == [processing_by |-> None, claimed_at |-> Some(now)]

\* release_sequence, line 175: the update's $set
ReleaseSet == [processing_by |-> None, claimed_at |-> None]

chunks_to_mark_all(seq) == seq.chunks

\* mark_as_transcribed, line 363
chunks_to_mark(seq) ==
    IF seq.is_partial THEN SubSeq(seq.chunks, 1, Len(seq.chunks) - 1) ELSE seq.chunks

ToMark(seq) ==
    LET marked == chunks_to_mark(seq)
    IN  {marked[k].id : k \in 1..Len(marked)}

\* one more completed sequence for each of its chunks
Completed(seq) ==
    [c \in Chunks |-> completions[c] + (IF c \in Ids(seq) THEN 1 ELSE 0)]

\* lines 246-248: batch_processed once process_sequence has returned st (the
\* loop only ever reads whether it is 0, line 262; the pool never reads it)
Counted(t, st) ==
    IF max_workers[WorkerOf(t)] = 1 /\ st # "skipped"
    THEN [batch_processed EXCEPT ![WorkerOf(t)] = 1]
    ELSE batch_processed

\* lines 242 and 273, then 179-182: a thread takes the next sequence of the
\* scan and calls claim_sequence
Begin(t) ==
    LET w == WorkerOf(t)
    IN  /\ wpc[w] \in {"run", "draining"}
        /\ t[2] <= max_workers[w]
        /\ tpc[t] \in {"idle", "returned", "raised"}
        /\ queue[w] # << >>
        /\ tseq' = [tseq EXCEPT ![t] = Head(queue[w])]
        /\ queue' = [queue EXCEPT ![w] = Tail(queue[w])]
        /\ tpc' = [tpc EXCEPT ![t] = "claim"]
        /\ todo' = [todo EXCEPT ![t] = Ids(Head(queue[w]))]
        /\ modified' = [modified EXCEPT ![t] = {}]
        /\ status' = [status EXCEPT ![t] = ""]
        /\ caught' = [caught EXCEPT ![t] = None]
        /\ UNCHANGED <<libvars, asmvars, claimvars, transcribed_at, transcriptions, max_workers, wpc, batch_processed,
                       failures, completions>>

AfterClaimIgnored(claimed) == "transcribe"

\* lines 182-186: "skipped" is returned unless the claim succeeded
AfterClaim(claimed) == IF claimed THEN "transcribe" ELSE "returned"

AfterErrorAborts(w) == [wpc EXCEPT ![w] = "done"]

\* lines 195-208 and 242, 276: the handler returns "error", nothing is raised
\* into process_speech_sequences, whose loop goes on
AfterError(w) == wpc

\* claim_sequence, lines 160-167: the update reaches document c; after the
\* last document the call returns and process_sequence goes on (lines 182-186)
ClaimDoc(t, c) ==
    /\ tpc[t] = "claim"
    /\ c \in todo[t]
    /\ LET hit == ClaimFilter(c)
           done == IF hit THEN modified[t] \cup {c} ELSE modified[t]
           claimed == ClaimSucceeded(Cardinality(done), tseq[t])
       IN  /\ IF hit
              THEN /\ processing_by' = [processing_by EXCEPT ![c] = Some(WorkerOf(t))]
                   /\ claimed_at' = [claimed_at EXCEPT ![c] = Some(now)]
                   /\ holder' = [holder EXCEPT ![c] = Some(t)]
              ELSE UNCHANGED claimvars
           /\ modified' = [modified EXCEPT ![t] = done]
           /\ todo' = [todo EXCEPT ![t] = @ \ {c}]
           /\ IF todo[t] = {c}
              THEN /\ tpc' = [tpc EXCEPT ![t] = AfterClaim(claimed)]
                   /\ status' = [status EXCEPT ![t] = IF claimed THEN "" ELSE "skipped"]
              ELSE UNCHANGED <<tpc, status>>
    /\ UNCHANGED <<libvars, asmvars, transcribed_at, transcriptions, loopvars, tseq, caught, failures,
                   completions>>

\* A segment's text is a sequence of characters, so that strip, lower,
\* startswith and endswith are computed and not assumed.
Whitespace == {" "}

RECURSIVE lstrip(_)
lstrip(text) ==
    IF text # << >> /\ Head(text) \in Whitespace THEN lstrip(Tail(text)) ELSE text

RECURSIVE rstrip(_)
rstrip(text) ==
    IF text # << >> /\ text[Len(text)] \in Whitespace
    THEN rstrip(SubSeq(text, 1, Len(text) - 1))
    ELSE text

\* str.strip()
strip(text) == rstrip(lstrip(text))

\* str.lower(), on the letters the modelled texts use
lower(text) ==
    [i \in 1..Len(text) |->
        CASE text[i] = "U" -> "u"
          [] text[i] = "O" -> "o"
          [] text[i] = "H" -> "h"
          [] OTHER -> text[i]]

\* lib/transcription.py lines 3-21, the entries over the modelled alphabet
known_errors ==
    { <<".">>, <<".", ".", ".">>, <<"*">>, <<"u", "h">>, <<"-">>, <<"o", "h">>,
      <<"-", " ", "O", "h", ".">> }

\* lib/transcription.py lines 26-36, the entry over the modelled alphabet
remove_if_lonely == { <<"O", "k", "a", "y", ".">> }

\* the texts a segment of the endpoint's answer may carry
SegmentTexts ==
    { << >>, <<" ", "u", "h">>, <<"O", "h">>, <<"*", "h", "a", "*">>,
      <<"O", "k", "a", "y", ".">>, <<"h", "i">>, <<"-", " ", "O", "h", ".">> }

MaxSegments == 2

\* transcript.get('segments', []): the answers of the endpoint
Responses == UNION { [1..n -> SegmentTexts] : n \in 0..MaxSegments }

\* lines 323-330: the segment is skipped
Denied(segment) ==
    LET text == lower(strip(segment))
    IN  \/ text = << >>
        \/ text \in known_errors
        \/ Head(text) = "*" /\ text[Len(text)] = "*"

\* lines 321-332
filtered_segments(segments) == SelectSeq(segments, LAMBDA segment : ~Denied(segment))

NoSpeechOnlyWhenEmpty(filtered) == filtered = << >>

\* lines 334-336
NoSpeech(filtered) ==
    \/ filtered = << >>
    \/ \A i \in 1..Len(filtered) : strip(filtered[i]) \in remove_if_lonely

request_files_as_stored(sequence) == sequence.chunks

\* lines 305-308: the files of the request, in the order they are sent
request_files(sequence) ==
    [i \in 1..Len(sequence.chunks) |-> sequence.chunks[Len(sequence.chunks) - i + 1]]

\* lines 334-358: what transcribe_sequence returns
transcribe_result(segments) ==
    IF NoSpeech(filtered_segments(segments)) THEN "NO_SPEECH_DETECTED" ELSE "text"

\* what the endpoint's answer comes to after the segment filter of lines 314-337
TranscribeResults == {"text", "NO_SPEECH_DETECTED"}

\* lines 304-358: what transcribe_sequence returns over the endpoint's answers
Returns == {transcribe_result(segments) : segments \in Responses} \cap TranscribeResults

\* lines 187-194: transcribe_sequence returns; mark_as_transcribed starts its
\* update, or has nothing to mark and process_sequence returns
Transcribed(t, result) ==
    LET seq == tseq[t]
    IN  /\ tpc[t] = "transcribe"
        /\ transcriptions' =
             IF result = "text"
             THEN transcriptions \cup {[original |-> seq.original_id, start |-> start(seq)]}
             ELSE transcriptions
        /\ status' = [status EXCEPT ![t] =
                        IF result = "NO_SPEECH_DETECTED" THEN "empty" ELSE "transcribed"]
        /\ todo' = [todo EXCEPT ![t] = ToMark(seq)]
        /\ IF ToMark(seq) = {}
           THEN /\ tpc' = [tpc EXCEPT ![t] = "returned"]
                /\ completions' = Completed(seq)
                /\ batch_processed' = Counted(t, "transcribed")
           ELSE /\ tpc' = [tpc EXCEPT ![t] = "mark"]
                /\ UNCHANGED <<completions, batch_processed>>
        /\ UNCHANGED <<libvars, asmvars, claimvars, transcribed_at, max_workers, wpc, queue, tseq, modified,
                       caught, failures>>

\* lines 304-312 and 195-208: the request times out, fails or answers with a
\* bad status; the handler calls release_sequence
TranscribeFails(t) ==
    /\ tpc[t] = "transcribe"
    /\ failures < MaxFailures
    /\ failures' = failures + 1
    /\ caught' = [caught EXCEPT ![t] = Some("transcribe_sequence")]
    /\ tpc' = [tpc EXCEPT ![t] = "release"]
    /\ todo' = [todo EXCEPT ![t] = Ids(tseq[t])]
    /\ UNCHANGED <<libvars, asmvars, claimvars, transcribed_at, transcriptions, loopvars, tseq, modified,
                   status, completions>>

\* mark_as_transcribed, lines 365-370: the update reaches document c; after
\* the last one process_sequence returns its status (line 194)
MarkDoc(t, c) ==
    /\ tpc[t] = "mark"
    /\ c \in todo[t]
    /\ transcribed_at' = [transcribed_at EXCEPT ![c] = Some(now)]
    /\ todo' = [todo EXCEPT ![t] = @ \ {c}]
    /\ IF todo[t] = {c}
       THEN /\ tpc' = [tpc EXCEPT ![t] = "returned"]
            /\ completions' = Completed(tseq[t])
            /\ batch_processed' = Counted(t, status[t])
       ELSE UNCHANGED <<tpc, completions, batch_processed>>
    /\ UNCHANGED <<libvars, asmvars, claimvars, transcriptions, max_workers, wpc, queue, tseq, modified, status,
                   caught, failures>>

\* release_sequence, lines 171-176: the update reaches document c; after the
\* last one process_sequence returns "error" (lines 201, 208)
ReleaseDoc(t, c) ==
    /\ tpc[t] = "release"
    /\ c \in todo[t]
    /\ processing_by' = [processing_by EXCEPT ![c] = ReleaseSet.processing_by]
    /\ claimed_at' = [claimed_at EXCEPT ![c] = ReleaseSet.claimed_at]
    /\ holder' = [holder EXCEPT ![c] = None]
    /\ todo' = [todo EXCEPT ![t] = @ \ {c}]
    /\ IF todo[t] = {c}
       THEN /\ tpc' = [tpc EXCEPT ![t] = "returned"]
            /\ status' = [status EXCEPT ![t] = "error"]
            /\ batch_processed' = Counted(t, "error")
            /\ wpc' = AfterError(WorkerOf(t))
       ELSE UNCHANGED <<tpc, status, batch_processed, wpc>>
    /\ UNCHANGED <<libvars, asmvars, transcribed_at, transcriptions, max_workers, queue, tseq, modified,
                   caught, failures, completions>>

WorkerNext ==
    \/ \E w \in Workers : Scan(w)
    \/ \E w \in Workers : LoopEnd(w)
    \/ \E t \in Threads : Begin(t)
    \/ \E t \in Threads, c \in Chunks : ClaimDoc(t, c)
    \/ \E t \in Threads, r \in Returns : Transcribed(t, r)
    \/ \E t \in Threads : TranscribeFails(t)
    \/ \E t \in Threads, c \in Chunks : MarkDoc(t, c)
    \/ \E t \in Threads, c \in Chunks : ReleaseDoc(t, c)

Init == WorkerInit /\ AsmIdle /\ LibIdle

Next == WorkerNext

Spec == Init /\ [][Next]_vars

WorkerIdle ==
    /\ processing_by = << >>
    /\ claimed_at = << >>
    /\ transcribed_at = << >>
    /\ transcriptions = {}
    /\ max_workers = << >>
    /\ wpc = << >>
    /\ queue = << >>
    /\ batch_processed = << >>
    /\ tpc = << >>
    /\ tseq = << >>
    /\ todo = << >>
    /\ modified = << >>
    /\ status = << >>
    /\ failures = 0
    /\ caught = << >>
    /\ holder = << >>
    /\ completions = << >>

InitAsm == AsmInit /\ WorkerIdle /\ LibIdle

SpecAsm == InitAsm /\ [][AsmNext]_vars

(***************************************************************************)
(* SpecLive: the workers of Spec when every transcription call succeeds,   *)
(* each process and thread running on as long as it has a step to take.    *)
(***************************************************************************)
NextLive ==
    \/ \E w \in Workers : Scan(w)
    \/ \E w \in Workers : LoopEnd(w)
    \/ \E t \in Threads : Begin(t)
    \/ \E t \in Threads, c \in Chunks : ClaimDoc(t, c)
    \/ \E t \in Threads, r \in Returns : Transcribed(t, r)
    \/ \E t \in Threads, c \in Chunks : MarkDoc(t, c)

\* a thread of the pool, or the loop's own thread, takes its next step
ThreadStep(t) ==
    \/ Begin(t)
    \/ \E c \in Chunks : ClaimDoc(t, c)
    \/ \E r \in Returns : Transcribed(t, r)
    \/ \E c \in Chunks : MarkDoc(t, c)

\* WF_vars(Scan(w)), with ENABLED <<Scan(w)>>_vars written out: a scan is
\* enabled exactly when the worker is about to scan, and it always leaves
\* that position
ScanFair(w) == []<>(wpc[w] # "scan") \/ []<><<Scan(w)>>_vars

Fairness ==
    /\ \A w \in Workers : ScanFair(w) /\ WF_vars(LoopEnd(w))
    /\ \A t \in Threads : WF_vars(ThreadStep(t))

SpecLive == Init /\ [][NextLive]_vars /\ Fairness

(***************************************************************************)
(* SpecFail: the workers of Spec over a store whose update_many may raise  *)
(* (the connection drops, the server steps down).  An update that raises   *)
(* has reached any part of its documents.                                  *)
(***************************************************************************)
MaxStoreFailures == 2

\* lines 182 and 202-204: claim_sequence raises; the handler of line 202
\* catches the exception and calls release_sequence
ClaimFails(t) ==
    /\ tpc[t] = "claim"
    /\ failures < MaxStoreFailures
    /\ failures' = failures + 1
    /\ caught' = [caught EXCEPT ![t] = Some("claim_sequence")]
    /\ tpc' = [tpc EXCEPT ![t] = "release"]
    /\ todo' = [todo EXCEPT ![t] = Ids(tseq[t])]
    /\ UNCHANGED <<libvars, asmvars, claimvars, transcribed_at, transcriptions, loopvars, tseq,
                   modified, status, completions>>

\* lines 189 and 202-204: mark_as_transcribed raises; the same handler
MarkFails(t) ==
    /\ tpc[t] = "mark"
    /\ failures < MaxStoreFailures
    /\ failures' = failures + 1
    /\ caught' = [caught EXCEPT ![t] = Some("mark_as_transcribed")]
    /\ tpc' = [tpc EXCEPT ![t] = "release"]
    /\ todo' = [todo EXCEPT ![t] = Ids(tseq[t])]
    /\ UNCHANGED <<libvars, asmvars, claimvars, transcribed_at, transcriptions, loopvars, tseq,
                   modified, status, completions>>

\* lines 197, 204: release_sequence raises inside the handler, and the
\* exception leaves process_sequence.  With one thread it leaves the loop of
\* lines 239-264 as well; with a pool it is raised again by future.result()
\* (line 276) and the executor's exit runs the sequences already submitted.
ReleaseFails(t) ==
    LET w == WorkerOf(t)
    IN  /\ tpc[t] = "release"
        /\ failures < MaxStoreFailures
        /\ failures' = failures + 1
        /\ tpc' = [tpc EXCEPT ![t] = "raised"]
        /\ todo' = [todo EXCEPT ![t] = {}]
        /\ IF max_workers[w] = 1
           THEN /\ wpc' = [wpc EXCEPT ![w] = "done"]
                /\ queue' = [queue EXCEPT ![w] = << >>]
           ELSE /\ wpc' = [wpc EXCEPT ![w] = "draining"]
                /\ UNCHANGED queue
        /\ UNCHANGED <<libvars, asmvars, claimvars, transcribed_at, transcriptions, max_workers,
                       batch_processed, tseq, modified, status, caught, completions>>

\* line 266: the executor's exit has waited for every submitted sequence
DrainEnd(w) ==
    /\ wpc[w] = "draining"
    /\ queue[w] = << >>
    /\ \A t \in Threads : WorkerOf(t) = w => tpc[t] \in {"idle", "returned", "raised"}
    /\ wpc' = [wpc EXCEPT ![w] = "done"]
    /\ UNCHANGED <<libvars, asmvars, claimvars, transcribed_at, transcriptions, max_workers, queue,
                   batch_processed, tpc, tseq, todo, modified, status, caught, failures,
                   completions>>

NextFail ==
    \/ WorkerNext
    \/ \E t \in Threads : ClaimFails(t)
    \/ \E t \in Threads : MarkFails(t)
    \/ \E t \in Threads : ReleaseFails(t)
    \/ \E w \in Workers : DrainEnd(w)

SpecFail == Init /\ [][NextFail]_vars

(***************************************************************************)
(* SpecReset: the workers of Spec, and reset_orphaned_chunks.py run with   *)
(* --execute at any moment.                                                *)
(***************************************************************************)
\* reset_orphaned_chunks.py lines 15-35: find_orphaned_chunks
orphaned_chunk_ids ==
    { c \in Chunks :
        /\ transcribed_at[c] # None
        /\ vad_has_speech(c)
        /\ [original |-> Doc(c).original_id, start |-> Doc(c).start] \notin transcriptions }

\* reset_orphaned_chunks.py lines 39-60, dry_run False
reset_orphaned_chunks ==
    /\ orphaned_chunk_ids # {}
    /\ transcribed_at' =
         [c \in Chunks |-> IF c \in orphaned_chunk_ids THEN None ELSE transcribed_at[c]]
    /\ UNCHANGED <<libvars, asmvars, claimvars, transcriptions, loopvars, tpc, tseq, todo,
                   modified, status, caught, failures, completions>>

NextReset ==
    \/ WorkerNext
    \/ reset_orphaned_chunks

SpecReset == Init /\ [][NextReset]_vars

(***************************************************************************)
(* SpecStore: get_speech_sequences run, any number of times, over a store  *)
(* found in any state: each chunk transcribed or not, claimed by a worker  *)
(* or not.  Nothing processes the sequences, so the store stays as found.  *)
(***************************************************************************)
StoreInit ==
    /\ processing_by \in [Chunks -> {None} \cup {Some(w) : w \in Workers}]
    /\ claimed_at = [c \in Chunks |-> IF processing_by[c] = None THEN None ELSE Some(now)]
    /\ transcribed_at \in [Chunks -> {None, Some(now)}]
    /\ transcriptions = {}
    /\ max_workers \in Deployments
    /\ wpc = [w \in Workers |-> IF max_workers[w] = 0 THEN "done" ELSE "scan"]
    /\ queue = [w \in Workers |-> << >>]
    /\ batch_processed = [w \in Workers |-> 0]
    /\ tpc = [t \in Threads |-> "idle"]
    /\ tseq = [t \in Threads |-> NoSeq]
    /\ todo = [t \in Threads |-> {}]
    /\ modified = [t \in Threads |-> {}]
    /\ status = [t \in Threads |-> ""]
    /\ failures = 0
    /\ caught = [t \in Threads |-> None]
    /\ holder = [c \in Chunks |-> None]
    /\ completions = [c \in Chunks |-> 0]

\* lines 241, 268: the worker calls get_speech_sequences once more, the
\* sequences of the previous call left unprocessed
RunAgain(w) ==
    /\ max_workers[w] > 0
    /\ wpc[w] \in {"run", "done"}
    /\ wpc' = [wpc EXCEPT ![w] = "scan"]
    /\ queue' = [queue EXCEPT ![w] = << >>]
    /\ UNCHANGED <<libvars, asmvars, claimvars, transcribed_at, transcriptions, max_workers,
                   batch_processed, tpc, tseq, todo, modified, status, caught, failures, completions>>

InitStore == StoreInit /\ AsmIdle /\ LibIdle

NextStore ==
    \/ \E w \in Workers : Scan(w)
    \/ \E w \in Workers : RunAgain(w)

SpecStore == InitStore /\ [][NextStore]_vars

(***************************************************************************)
(* chunking.py: class AudioChunkReader and fetch_audio (SpecRead).         *)
(*                                                                         *)
(* Time is counted in ticks, the resolution of datetime and timedelta      *)
(* (one microsecond in the program).  A sample lasts Resolution /          *)
(* sample_rate ticks, which is no whole number of them (62.5 in the        *)
(* program).  Arithmetic on seconds is exact; what int(), round() and the  *)
(* timedelta constructor do to a fraction is computed.                     *)
(***************************************************************************)
\* ticks in a second
Resolution == 3
\* the sample_rate argument, in samples per second
sample_rate == 2
\* chunk documents in the collection read
MaxReadChunks == 2
\* samples a chunk decodes to
MaxSamples == 3
\* ticks from the start of a chunk to the start of the next
MaxDelta == 6
\* ticks the first chunk starts before or after start_at
MaxOffset == 3
\* the duration argument, in ticks
MaxDuration == 6

\* int(n / d) for d > 0: the fraction is dropped, towards zero
Trunc(n, d) == IF n >= 0 THEN n \div d ELSE -((-n) \div d)

\* n / d for n >= 0 and d > 0 rounded to the nearest integer, a half to the
\* even one: round() and the rounding of timedelta and fromtimestamp
RoundHalfEven(n, d) ==
    LET q == n \div d
        r == n % d
    IN  IF 2 * r < d THEN q
        ELSE IF 2 * r > d THEN q + 1
        ELSE IF q % 2 = 0 THEN q ELSE q + 1

\* lines 192-196: CHUNK_MAX_LEN + timedelta(seconds=1), in ticks
LookBack == (CHUNK_MAX_LEN + 1) * Resolution

\* the instant the start_at arguments of the model denote, in ticks
T0 == LookBack + MaxOffset

\* a numeric start_at is a float of seconds, finer than a tick: it is given
\* in half ticks
StartAts ==
    { [type |-> "datetime", value |-> T0],
      [type |-> "float", value |-> 2 * T0],
      [type |-> "float", value |-> 2 * T0 + 1],
      [type |-> "str", value |-> T0] }

fromtimestamp_local(half_ticks) == RoundHalfEven(half_ticks, 2) + 3600 * Resolution

\* line 187: datetime.fromtimestamp(start_at, tz=UTC)
fromtimestamp(half_ticks) == RoundHalfEven(half_ticks, 2)

Durations == 0..MaxDuration

\* one decoded sample is named by its chunk and its position in it; silence
\* is 0; the mean of two samples is named by the two
Sample(blob, i) == blob * 10 + i

Zero == 0

Mean(x, y) == x * 100 + y

\* line 220: read_codec(chunk["data"], codec="opus", sample_rate=...)
read_codec(data) == [i \in 1..data.samples |-> Sample(data.blob, i)]

\* np.zeros(n)
zeros(n) == [i \in 1..n |-> Zero]

Min(a, b) == IF a <= b THEN a ELSE b

\* array[:n] and array[n:] for n >= 0
UpTo(array, n) == SubSeq(array, 1, Min(n, Len(array)))

From(array, n) == SubSeq(array, Min(n, Len(array)) + 1, Len(array))

\* np.concatenate(arrays)
RECURSIVE concatenate(_)
concatenate(arrays) ==
    IF arrays = << >> THEN << >> ELSE Head(arrays) \o concatenate(Tail(arrays))

\* line 237: np.mean([a, b], axis=0).  Arrays of one length give the mean of
\* each pair.  Arrays of different lengths make a ragged list: numpy raises
\* ValueError, or (before 1.24) builds an array of two objects and adds
\* them, which broadcasts an array of length 1 and raises otherwise.
mean(a, b) ==
    IF Len(a) = Len(b)
    THEN { [raised |-> FALSE, value |-> [i \in 1..Len(a) |-> Mean(a[i], b[i])]] }
    ELSE { [raised |-> TRUE, value |-> << >>] } \cup
         ( IF Len(a) = 1
           THEN { [raised |-> FALSE, value |-> [i \in 1..Len(b) |-> Mean(a[1], b[i])]] }
           ELSE IF Len(b) = 1
           THEN { [raised |-> FALSE, value |-> [i \in 1..Len(a) |-> Mean(a[i], b[1])]] }
           ELSE {} )

\* the audio_chunks documents matching filter_chunks, as sort("start", 1)
\* orders them
RECURSIVE Arrange(_)
Arrange(n) ==
    IF n = 0 THEN { << >> }
    ELSE IF n = 1
    THEN { << [id |-> 1, start |-> s, data |-> [blob |-> 1, samples |-> l]] >> :
             s \in {T0 - LookBack} \cup ((T0 - MaxOffset)..(T0 + MaxOffset)),
             l \in 1..MaxSamples }
    ELSE { Append(a, [id |-> n, start |-> a[n - 1].start + d,
                      data |-> [blob |-> n, samples |-> l]]) :
             a \in Arrange(n - 1), d \in 0..MaxDelta, l \in 1..MaxSamples }

Collections == UNION { Arrange(n) : n \in 0..MaxReadChunks }

ReaderInit ==
    /\ reader \in
         { [pc |-> "new", start_at |-> a, duration |-> d, bound |-> b,
            cursor |-> None, chunks |-> << >>, queries |-> 0, start |-> None,
            result |-> << >>, returned |-> << >>, fetched |-> << >>,
            raised |-> "", at |-> ""] :
             a \in StartAts, d \in Durations, b \in BOOLEAN }
    /\ ingest = [pc |-> "idle"]
    /\ finder = [pc |-> "idle"]
    /\ answer = [pc |-> "idle"]
    /\ ejson = [pc |-> "idle"]

Raise(name, where) == [reader EXCEPT !.pc = "raised", !.raised = name, !.at = where]

\* lines 192-197: find(...).sort("start", 1) over the collection
Find(collection, cursor) ==
    SelectSeq(collection, LAMBDA doc : doc.start > cursor - LookBack)

\* lines 186-189
CursorOf(start_at) ==
    IF start_at.type = "float" THEN fromtimestamp(start_at.value) ELSE start_at.value

\* AudioChunkReader.__init__, lines 177-197.  The name db_collection of line
\* 192 is bound nowhere in chunking.py: where the environment does not
\* supply it, the lookup raises NameError before any query is made.
Construct ==
    /\ reader.pc = "new"
    /\ IF reader.start_at.type \notin {"float", "datetime"}
       THEN reader' = Raise("ValueError", "__init__")
       ELSE IF ~reader.bound
       THEN reader' = [Raise("NameError", "__init__") EXCEPT
                          !.cursor = Some(CursorOf(reader.start_at))]
       ELSE \E collection \in Collections :
               reader' = [reader EXCEPT
                            !.pc = "ready",
                            !.cursor = Some(CursorOf(reader.start_at)),
                            !.chunks = Find(collection, CursorOf(reader.start_at)),
                            !.queries = @ + 1]
    /\ UNCHANGED <<asmvars, workervars, ingest, finder, answer, ejson>>

\* read, lines 199-213
ReadEnter ==
    /\ reader.pc = "ready"
    /\ reader' = [reader EXCEPT !.pc = "loop", !.start = reader.cursor, !.result = << >>]
    /\ UNCHANGED <<asmvars, workervars, ingest, finder, answer, ejson>>

\* line 215
Covered == Val(reader.cursor) - Val(reader.start) >= reader.duration

\* lines 222-225
diff_of(chunk, cursor) == Trunc((chunk.start - cursor) * sample_rate, Resolution)

\* line 221: timedelta(seconds=len(audio) / self.sample_rate)
chunk_duration(audio) == RoundHalfEven(Len(audio) * Resolution, sample_rate)

\* one iteration of the loop of read, lines 215-242
ReadChunk ==
    /\ reader.pc = "loop"
    /\ ~Covered
    /\ reader.chunks # << >>
    /\ LET chunk == Head(reader.chunks)
           audio == read_codec(chunk.data)
           diff == diff_of(chunk, Val(reader.cursor))
           result == reader.result
           advanced == [reader EXCEPT
                          !.chunks = Tail(reader.chunks),
                          !.cursor = Some(chunk.start + chunk_duration(audio))]
       IN  IF diff > 0
           THEN reader' = [advanced EXCEPT !.result = result \o <<zeros(diff), audio>>]
           ELSE IF diff < 0 /\ result # << >>
           THEN LET overlap == -diff
                    prev == result[Len(result)]
                IN  \E m \in mean(From(prev, overlap), UpTo(audio, overlap)) :
                       IF m.raised
                       THEN reader' = Raise("ValueError", "mean")
                       ELSE reader' =
                              [advanced EXCEPT !.result =
                                 SubSeq(result, 1, Len(result) - 1) \o
                                 <<UpTo(prev, overlap), m.value, From(audio, overlap)>>]
           ELSE IF diff < 0
           THEN reader' = [advanced EXCEPT !.result = <<From(audio, -diff)>>]
           ELSE reader' = [advanced EXCEPT !.result = result \o <<audio>>]
    /\ UNCHANGED <<asmvars, workervars, ingest, finder, answer, ejson>>

\* lines 215-219 and 245: the loop is left, by its condition or by
\* StopIteration; np.concatenate raises ValueError on an empty list
ReadReturn ==
    /\ reader.pc = "loop"
    /\ Covered \/ reader.chunks = << >>
    /\ reader' = IF reader.result = << >>
                 THEN Raise("ValueError", "concatenate")
                 ELSE [reader EXCEPT !.pc = "returned",
                                     !.returned = concatenate(reader.result)]
    /\ UNCHANGED <<asmvars, workervars, ingest, finder, answer, ejson>>

\* line 264: int(duration.total_seconds() * sample_rate)
Wanted(duration) == Trunc(duration * sample_rate, Resolution)

\* fetch_audio, line 264: the samples handed to array_to_wav
Fetch ==
    /\ reader.pc = "returned"
    /\ reader' = [reader EXCEPT !.pc = "fetched",
                                !.fetched = UpTo(reader.returned, Wanted(reader.duration))]
    /\ UNCHANGED <<asmvars, workervars, ingest, finder, answer, ejson>>

InitRead == ReaderInit /\ AsmIdle /\ WorkerIdle

NextRead ==
    \/ Construct
    \/ ReadEnter
    \/ ReadChunk
    \/ ReadReturn
    \/ Fetch

SpecRead == InitRead /\ [][NextRead]_vars

(***************************************************************************)
(* chunking.py: server_side_cursor_find (SpecFind).                        *)
(***************************************************************************)
\* getMore calls the gateway answers with documents
MaxBatches == 3
\* the batch_size argument: documents in one answer, at most
MaxBatchDocs == 2

\* the cursor ids the gateway may issue
CursorIds == {"cursor1", "cursor2"}

\* the document at place j of the gateway's answer number b
BatchDoc(b, j) == b * 10 + j

\* what the gateway will answer to the getMore calls, in order (an empty
\* answer may come before later documents); every later answer is empty
Answers ==
    UNION { { [b \in 1..n |-> [j \in 1..sizes[b] |-> BatchDoc(b, j)]] :
                sizes \in [1..n -> 0..MaxBatchDocs] } : n \in 0..MaxBatches }

FinderInit ==
    /\ finder \in
         { [pc |-> "start", answers |-> a, issued |-> id, cursor_id |-> None,
            created |-> 0, getMore |-> << >>, docs |-> << >>, out |-> << >>] :
             a \in Answers, id \in CursorIds }
    /\ reader = [pc |-> "idle"]
    /\ ingest = [pc |-> "idle"]
    /\ answer = [pc |-> "idle"]
    /\ ejson = [pc |-> "idle"]

\* lines 149-156: createCursor
CreateCursor ==
    /\ finder.pc = "start"
    /\ finder' = [finder EXCEPT !.pc = "fetch",
                                !.cursor_id = Some(finder.issued),
                                !.created = @ + 1]
    /\ UNCHANGED <<asmvars, workervars, reader, ingest, answer, ejson>>

\* the gateway's answer to getMore call number n
Answer(n) == IF n <= Len(finder.answers) THEN finder.answers[n] ELSE << >>

LeavesAtShortBatch(docs) == Len(docs) < MaxBatchDocs

\* line 166: if not docs
Leaves(docs) == docs = << >>

\* lines 158-167: getMore, and the break on an empty answer
GetMore ==
    /\ finder.pc = "fetch"
    /\ LET docs == Answer(Len(finder.getMore) + 1)
       IN  finder' = [finder EXCEPT
                        !.getMore = Append(@, Val(finder.cursor_id)),
                        !.docs = docs,
                        !.pc = IF Leaves(docs) THEN "done"
                               ELSE "yield"]
    /\ UNCHANGED <<asmvars, workervars, reader, ingest, answer, ejson>>

\* lines 168-169: yield doc
YieldDoc ==
    /\ finder.pc = "yield"
    /\ finder' = [finder EXCEPT !.out = Append(@, Head(finder.docs)),
                                !.docs = Tail(@),
                                !.pc = IF Tail(finder.docs) = << >> THEN "fetch" ELSE "yield"]
    /\ UNCHANGED <<asmvars, workervars, reader, ingest, answer, ejson>>

InitFind == FinderInit /\ AsmIdle /\ WorkerIdle

NextFind ==
    \/ CreateCursor
    \/ GetMore
    \/ YieldDoc

SpecFind == InitFind /\ [][NextFind]_vars

(***************************************************************************)
(* chunking.py ingest_source and daemon.py ingests_missing_sources,        *)
(* clear_error, clear_all_errors (SpecIngest).                             *)
(***************************************************************************)
\* documents of source_files
NumSources == 2
\* chunk files split_to_opus_chunks makes of one source
MaxFiles == 2
\* uploads that raise, over one run of the model
MaxIngestFailures == 2

Sources == 1..NumSources

IngestInit ==
    /\ ingest \in
         { [pc |-> "idle",
            source_files |-> [s \in Sources |-> [ingested |-> FALSE, error |-> FALSE]],
            chunk_files |-> f,
            audio_chunks |-> << >>,
            query |-> << >>, source |-> 0, i |-> 0, failures |-> 0] :
             f \in [Sources -> 1..MaxFiles] }
    /\ reader = [pc |-> "idle"]
    /\ finder = [pc |-> "idle"]
    /\ answer = [pc |-> "idle"]
    /\ ejson = [pc |-> "idle"]

\* daemon.py lines 55-67: base_query
Pending(s, retry_errors) ==
    /\ ~ingest.source_files[s].ingested
    /\ retry_errors \/ ~ingest.source_files[s].error

\* daemon.py lines 101-107: find with sort start descending (the later
\* source is the newer one)
RECURSIVE Descending(_)
Descending(S) ==
    IF S = {} THEN << >>
    ELSE LET newest == CHOOSE s \in S : \A o \in S : o <= s
         IN  <<newest>> \o Descending(S \ {newest})

\* daemon.py lines 54-110: ingests_missing_sources is called
RunIngestion(retry_errors) ==
    /\ ingest.pc = "idle"
    /\ LET pending == {s \in Sources : Pending(s, retry_errors)}
       IN  /\ pending # {}
           /\ ingest' = [ingest EXCEPT !.pc = "run", !.query = Descending(pending)]
    /\ UNCHANGED <<asmvars, workervars, reader, finder, answer, ejson>>

\* daemon.py lines 112-123: the next source of the query is uploaded
NextSource ==
    /\ ingest.pc = "run"
    /\ ingest.query # << >>
    /\ ingest' = [ingest EXCEPT !.pc = "upload", !.source = Head(ingest.query),
                                !.query = Tail(@), !.i = 0]
    /\ UNCHANGED <<asmvars, workervars, reader, finder, answer, ejson>>

\* daemon.py lines 112, 152-156: the query is used up
RunEnds ==
    /\ ingest.pc = "run"
    /\ ingest.query = << >>
    /\ ingest' = [ingest EXCEPT !.pc = "idle", !.source = 0, !.i = 0]
    /\ UNCHANGED <<asmvars, workervars, reader, finder, answer, ejson>>

\* chunking.py lines 276-293: insertOne of the chunk of index i
InsertChunk ==
    /\ ingest.pc = "upload"
    /\ ingest.i < ingest.chunk_files[ingest.source]
    /\ ingest' = [ingest EXCEPT
                    !.audio_chunks = Append(@, [original_id |-> ingest.source,
                                                index |-> ingest.i]),
                    !.i = @ + 1]
    /\ UNCHANGED <<asmvars, workervars, reader, finder, answer, ejson>>

\* chunking.py lines 272-295 and daemon.py lines 135-150: the split, a read
\* or a call of the gateway raises; the handler records the error
UploadFails ==
    /\ ingest.pc = "upload"
    /\ ingest.failures < MaxIngestFailures
    /\ ingest' = [ingest EXCEPT
                    !.source_files[ingest.source].error = TRUE,
                    !.failures = @ + 1,
                    !.pc = "run"]
    /\ UNCHANGED <<asmvars, workervars, reader, finder, answer, ejson>>

\* daemon.py lines 124-134: ingest_source has returned
Uploaded ==
    /\ ingest.pc = "upload"
    /\ ingest.i = ingest.chunk_files[ingest.source]
    /\ ingest' = [ingest EXCEPT !.source_files[ingest.source].ingested = TRUE,
                                !.pc = "run"]
    /\ UNCHANGED <<asmvars, workervars, reader, finder, answer, ejson>>

\* daemon.py lines 194-200: clear_error
clear_error(file_id) ==
    /\ ingest.pc = "idle"
    /\ ingest.source_files[file_id].error
    /\ ingest' = [ingest EXCEPT !.source_files[file_id].error = FALSE]
    /\ UNCHANGED <<asmvars, workervars, reader, finder, answer, ejson>>

\* daemon.py lines 209-215: clear_all_errors
clear_all_errors ==
    /\ ingest.pc = "idle"
    /\ \E s \in Sources : ingest.source_files[s].error
    /\ ingest' = [ingest EXCEPT !.source_files =
                    [s \in Sources |-> [@[s] EXCEPT !.error = FALSE]]]
    /\ UNCHANGED <<asmvars, workervars, reader, finder, answer, ejson>>

InitIngest == IngestInit /\ AsmIdle /\ WorkerIdle

NextIngest ==
    \/ \E retry_errors \in BOOLEAN : RunIngestion(retry_errors)
    \/ NextSource
    \/ RunEnds
    \/ InsertChunk
    \/ UploadFails
    \/ Uploaded
    \/ \E file_id \in Sources : clear_error(file_id)
    \/ clear_all_errors

SpecIngest == InitIngest /\ [][NextIngest]_vars

(***************************************************************************)
(* stt.py transcribe_sequence: the segment filter and the stored           *)
(* transcript (SpecFilter).                                                *)
(***************************************************************************)
FilterInit ==
    /\ answer \in { [pc |-> "answered", segments |-> r, stored |-> None] : r \in Responses }
    /\ reader = [pc |-> "idle"]
    /\ ingest = [pc |-> "idle"]
    /\ finder = [pc |-> "idle"]
    /\ ejson = [pc |-> "idle"]

\* lines 314-358: the answer is filtered; NO_SPEECH_DETECTED is returned, or
\* the transcript is inserted with the filtered segments
FilterAndStore ==
    /\ answer.pc = "answered"
    /\ LET filtered == filtered_segments(answer.segments)
       IN  answer' = IF NoSpeech(filtered)
                     THEN [answer EXCEPT !.pc = "NO_SPEECH_DETECTED"]
                     ELSE [answer EXCEPT !.pc = "inserted", !.stored = Some(filtered)]
    /\ UNCHANGED <<asmvars, workervars, reader, ingest, finder, ejson>>

InitFilter == FilterInit /\ AsmIdle /\ WorkerIdle

NextFilter == FilterAndStore

SpecFilter == InitFilter /\ [][NextFilter]_vars

(***************************************************************************)
(* lib/resources.py: EJsonEncoder and EJsonDecoder (SpecEJson).            *)
(*                                                                         *)
(* A Python value is a record tagged with its type: ObjectId (its hex      *)
(* digits), datetime (aware: wall-clock fields and utcoffset), bytes, str, *)
(* list and dict.  json.dumps followed by json.loads carries str, list and *)
(* dict as they are; what the two classes add is default() on the way out  *)
(* and object_hook on every JSON object, innermost first, on the way in.   *)
(* Strings are sequences of characters.  A datetime's date and time of day *)
(* are one two-digit field, hour, and its fraction one digit, microsecond; *)
(* offsets are whole hours.                                                *)
(***************************************************************************)
MaxHour == 2
MaxBytes == 3
MaxItems == 2

Digits == <<"0", "1", "2", "3", "4", "5", "6", "7", "8", "9">>

digit(n) == Digits[n + 1]

digit_value(ch) == (CHOOSE i \in 1..Len(Digits) : Digits[i] = ch) - 1

two_digits(n) == <<digit(n \div 10), digit(n % 10)>>

two_digits_value(text) == digit_value(text[1]) * Len(Digits) + digit_value(text[2])

B64 ==
    << "A", "B", "C", "D", "E", "F", "G", "H", "I", "J", "K", "L", "M",
       "N", "O", "P", "Q", "R", "S", "T", "U", "V", "W", "X", "Y", "Z",
       "a", "b", "c", "d", "e", "f", "g", "h", "i", "j", "k", "l", "m",
       "n", "o", "p", "q", "r", "s", "t", "u", "v", "w", "x", "y", "z",
       "0", "1", "2", "3", "4", "5", "6", "7", "8", "9", "+", "/" >>

b64char(n) == B64[n + 1]

b64value(ch) == (CHOOSE i \in 1..Len(B64) : B64[i] = ch) - 1

\* base64.b64encode(obj).decode(): three bytes to four characters, "=" padding
RECURSIVE b64encode(_)
b64encode(b) ==
    LET byte(i) == IF i <= Len(b) THEN b[i] ELSE 0
        n == byte(1) * 65536 + byte(2) * 256 + byte(3)
        c1 == b64char(n \div 262144)
        c2 == b64char((n \div 4096) % 64)
        c3 == b64char((n \div 64) % 64)
        c4 == b64char(n % 64)
    IN  CASE Len(b) = 0 -> << >>
          [] Len(b) = 1 -> <<c1, c2, "=", "=">>
          [] Len(b) = 2 -> <<c1, c2, c3, "=">>
          [] OTHER -> <<c1, c2, c3, c4>> \o b64encode(SubSeq(b, 4, Len(b)))

\* base64.b64decode(base64_str)
RECURSIVE b64decode(_)
b64decode(text) ==
    IF Len(text) < 4 THEN << >>
    ELSE LET sextet(i) == IF text[i] = "=" THEN 0 ELSE b64value(text[i])
             n == sextet(1) * 262144 + sextet(2) * 4096 + sextet(3) * 64 + sextet(4)
             b1 == n \div 65536
             b2 == (n \div 256) % 256
             b3 == n % 256
         IN  CASE text[3] = "=" -> <<b1>>
               [] text[4] = "=" -> <<b1, b2>>
               [] OTHER -> <<b1, b2, b3>> \o b64decode(SubSeq(text, 5, Len(text)))

\* str.replace(old, new)
RECURSIVE replace(_, _, _)
replace(text, old, new) ==
    IF Len(text) < Len(old) THEN text
    ELSE IF SubSeq(text, 1, Len(old)) = old
         THEN new \o replace(SubSeq(text, Len(old) + 1, Len(text)), old, new)
         ELSE <<Head(text)>> \o replace(Tail(text), old, new)

\* str.endswith(suffix)
endswith(text, suffix) ==
    /\ Len(text) >= Len(suffix)
    /\ SubSeq(text, Len(text) - Len(suffix) + 1, Len(text)) = suffix

ObjectId(hex) == [type |-> "ObjectId", v |-> hex]

datetime(hour, microsecond, utcoffset) ==
    [type |-> "datetime", hour |-> hour, microsecond |-> microsecond, utcoffset |-> utcoffset]

bytes(b) == [type |-> "bytes", v |-> b]

str(text) == [type |-> "str", v |-> text]

list(items) == [type |-> "list", v |-> items]

dict(items) == [type |-> "dict", v |-> items]

ValueError == [type |-> "ValueError"]

\* line 18: obj.astimezone(pytz.utc), the same instant on the UTC clock
astimezone_utc(obj) == datetime(obj.hour - obj.utcoffset, obj.microsecond, 0)

utcoffset_text(utcoffset) ==
    <<IF utcoffset < 0 THEN "-" ELSE "+">>
        \o two_digits(IF utcoffset < 0 THEN 0 - utcoffset ELSE utcoffset) \o <<":", "0", "0">>

isoformat_seconds(obj) == two_digits(obj.hour) \o utcoffset_text(obj.utcoffset)

\* datetime.isoformat(): the fraction is written only when it is not zero
isoformat(obj) ==
    two_digits(obj.hour)
        \o (IF obj.microsecond = 0 THEN << >> ELSE <<".", digit(obj.microsecond)>>)
        \o utcoffset_text(obj.utcoffset)

\* datetime.fromisoformat(iso)
fromisoformat(iso) ==
    LET fraction == Len(iso) > 2 /\ iso[3] = "."
        zone == SubSeq(iso, IF fraction THEN 5 ELSE 3, Len(iso))
        hours == two_digits_value(SubSeq(zone, 2, 3))
    IN  datetime(two_digits_value(iso),
                 IF fraction THEN digit_value(iso[4]) ELSE 0,
                 IF zone[1] = "-" THEN 0 - hours ELSE hours)

\* lines 14-27: EJsonEncoder.default, called by json on every value that is
\* not of a JSON type, inside lists and dicts as well
RECURSIVE EJsonEncoder(_)
EJsonEncoder(obj) ==
    CASE obj.type = "ObjectId" -> dict("$oid" :> str(obj.v))
      [] obj.type = "datetime" ->
            dict("$date" :> str(replace(isoformat(astimezone_utc(obj)),
                                        <<"+", "0", "0", ":", "0", "0">>, <<"Z">>)))
      [] obj.type = "bytes" ->
            dict("$binary" :> dict("base64" :> str(b64encode(obj.v))
                                     @@ "subType" :> str(<<"0", "0">>)))
      [] obj.type = "list" -> list([i \in DOMAIN obj.v |-> EJsonEncoder(obj.v[i])])
      [] obj.type = "dict" -> dict([k \in DOMAIN obj.v |-> EJsonEncoder(obj.v[k])])
      [] OTHER -> obj

\* lines 36-50: EJsonDecoder._object_hook
object_hook(dct) ==
    CASE "$oid" \in DOMAIN dct.v -> ObjectId(dct.v["$oid"].v)
      [] "$oid" \notin DOMAIN dct.v /\ "$date" \in DOMAIN dct.v ->
            LET iso == dct.v["$date"].v
            IN  fromisoformat(IF endswith(iso, <<"Z">>)
                              THEN SubSeq(iso, 1, Len(iso) - 1) \o <<"+", "0", "0", ":", "0", "0">>
                              ELSE iso)
      [] {"$oid", "$date"} \cap DOMAIN dct.v = {} /\ "$binary" \in DOMAIN dct.v ->
            LET binary_data == dct.v["$binary"].v
                subType == IF "subType" \in DOMAIN binary_data
                           THEN binary_data["subType"].v ELSE <<"0", "0">>
            IN  IF subType # <<"0", "0">> THEN ValueError
                ELSE bytes(b64decode(binary_data["base64"].v))
      [] OTHER -> dct

\* lines 30-33: json.loads with object_hook, applied to every object once its
\* members have been decoded
RECURSIVE EJsonDecoder(_)
EJsonDecoder(j) ==
    CASE j.type = "list" -> list([i \in DOMAIN j.v |-> EJsonDecoder(j.v[i])])
      [] j.type = "dict" -> object_hook(dict([k \in DOMAIN j.v |-> EJsonDecoder(j.v[k])]))
      [] OTHER -> j

\* the values sent: identifiers, aware datetimes (UTC and one hour east) and
\* byte strings of every padding
ObjectIds == {ObjectId(<<"0", "a">>), ObjectId(<<"f", "f">>)}

Datetimes == {datetime(h, us, off) : h \in 1..MaxHour, us \in {0, 5}, off \in {0, 1}}

ByteStrings == {bytes(b) : b \in UNION {[1..n -> {0, 255}] : n \in 0..MaxBytes}}

Scalars == ObjectIds \cup Datetimes \cup ByteStrings

ListsOf(S) == {list(items) : items \in UNION {[1..n -> S] : n \in 0..MaxItems}}

DocsOf(S) == {dict("field" :> x) : x \in S}

\* one value of each kind, for the lists of several items
Samples ==
    { ObjectId(<<"0", "a">>), datetime(1, 5, 0), datetime(MaxHour, 0, 1),
      bytes(<<255>>), bytes(<<0, 255>>) }

\* every scalar alone, in a document and in a list; lists of several items
\* and documents holding such lists over the samples
EJsonValues ==
    Scalars \cup DocsOf(Scalars) \cup {list(<<x>>) : x \in Scalars}
        \cup ListsOf(Samples) \cup DocsOf(ListsOf(Samples))

EJsonInit ==
    /\ ejson \in { [pc |-> "value", obj |-> obj, text |-> None, back |-> None] :
                      obj \in EJsonValues }
    /\ reader = [pc |-> "idle"]
    /\ ingest = [pc |-> "idle"]
    /\ finder = [pc |-> "idle"]
    /\ answer = [pc |-> "idle"]

\* line 57: json.dumps(body, cls=EJsonEncoder)
Dumps ==
    /\ ejson.pc = "value"
    /\ ejson' = [ejson EXCEPT !.pc = "encoded", !.text = Some(EJsonEncoder(ejson.obj))]
    /\ UNCHANGED <<asmvars, workervars, reader, ingest, finder, answer>>

\* json.loads(text, cls=EJsonDecoder)
Loads ==
    /\ ejson.pc = "encoded"
    /\ ejson' = [ejson EXCEPT !.pc = "decoded", !.back = Some(EJsonDecoder(Val(ejson.text)))]
    /\ UNCHANGED <<asmvars, workervars, reader, ingest, finder, answer>>

InitEJson == EJsonInit /\ AsmIdle /\ WorkerIdle

NextEJson == Dumps \/ Loads

SpecEJson == InitEJson /\ [][NextEJson]_vars

(***************************************************************************)
(* Properties of get_speech_sequences (SpecAsm).                           *)
(***************************************************************************)
\* the sequences yielded so far
Yielded == {g_out[k] : k \in 1..Len(g_out)}

\* C5: every yielded SpeechSequence holds chunks of its own original_id
\* only, and their indices are consecutive descending integers:
\* chunks[k].index = chunks[k+1].index + 1 for every k.
C5_YieldedContiguous ==
    \A seq \in Yielded :
        /\ \A k \in 1..Len(seq.chunks) : seq.chunks[k].original_id = seq.original_id
        /\ \A k \in 1..(Len(seq.chunks) - 1) :
              seq.chunks[k].index = seq.chunks[k + 1].index + 1

\* a run in which a sequence of two chunks was flushed on an index
\* discontinuity, while another recording's sequence was open
C5_Witness ==
    /\ Len(g_stream) >= 3
    /\ \E k \in 1..Len(g_out) :
          /\ Len(g_out[k].chunks) = 2
          /\ ~g_out[k].is_partial
          /\ \E j \in 1..Len(g_stream) :
                /\ g_stream[j].original_id = g_out[k].original_id
                /\ g_stream[j].index # g_out[k].chunks[2].index - 1
                /\ j > 1 /\ g_stream[j - 1] = g_out[k].chunks[2]

(***************************************************************************)
(* Properties of the claim / release protocol (Spec).                      *)
(***************************************************************************)
Returned(t, st) == tpc[t] = "returned" /\ status[t] = st

Succeeded(t) == Returned(t, "transcribed") \/ Returned(t, "empty")

Overlap(t, u) == Ids(tseq[t]) \cap Ids(tseq[u]) # {}

\* claim_sequence has returned True to t, and t has not released its claim
ClaimWon(t) == tpc[t] \in {"transcribe", "mark"} \/ Succeeded(t)

C2_FailedClaimRolledBack ==
    \A t \in Threads :
        (/\ Returned(t, "skipped")
         /\ \E c \in Ids(tseq[t]) \ modified[t] :
                processing_by[c] \notin {None, Some(WorkerOf(t))}) =>
            \A c \in modified[t] : processing_by[c] = None /\ claimed_at[c] = None

\* t holds chunk c: between claim_sequence returning True and the moment
\* mark_as_transcribed is done or release_sequence has released c
Holds(t, c) ==
    /\ c \in Ids(tseq[t])
    /\ \/ tpc[t] \in {"transcribe", "mark"}
       \/ tpc[t] = "release" /\ c \in todo[t]

C4_ErrorReleasesEverything ==
    \A t \in Threads :
        Returned(t, "error") =>
            /\ \A c \in Ids(tseq[t]) :
                  /\ holder[c] # Some(t)
                  /\ holder[c] = None =>
                        /\ processing_by[c] = None
                        /\ claimed_at[c] = None
                        /\ transcribed_at[c] = None
            /\ holder[last(tseq[t]).id] = None =>
                  ~\E doc \in transcriptions :
                      /\ doc.original = tseq[t].original_id
                      /\ doc.start = start(tseq[t])

\* a sequence of two chunks was claimed, its transcription failed, and all
\* its chunks are unclaimed and untranscribed at the return
C4_Witness ==
    \E t \in Threads :
        /\ Returned(t, "error")
        /\ Len(tseq[t].chunks) = 2
        /\ \A c \in Ids(tseq[t]) :
              processing_by[c] = None /\ claimed_at[c] = None /\ transcribed_at[c] = None

\* C6: claim_sequence returns True exactly when every chunk of the sequence
\* had processing_by = None when the update reached it (all were modified),
\* and then every chunk of the sequence has processing_by = worker_id.
C6_ClaimReturnsTrueIffAllModified ==
    \A t \in Threads :
        /\ tpc[t] = "transcribe" =>
              /\ modified[t] = Ids(tseq[t])
              /\ \A c \in Ids(tseq[t]) : processing_by[c] = Some(WorkerOf(t))
        /\ Returned(t, "skipped") => modified[t] # Ids(tseq[t])

\* one call has returned True; another has returned False although it
\* modified a chunk
C6_Witness ==
    \E t, u \in Threads :
        /\ tpc[t] = "transcribe"
        /\ Returned(u, "skipped")
        /\ modified[u] # {}

\* C7: after a partial sequence has been processed successfully, its last
\* chunk is eligible for the assembler: transcribed_at and processing_by are
\* both null, so the scan's filter matches it.
C7_SeedChunkEligible ==
    \A t \in Threads :
        (Succeeded(t) /\ tseq[t].is_partial) => Eligible(last(tseq[t]).id)

\* nothing is running, nothing is queued, and the scan's filter matches no
\* chunk: every later scan returns no sequence and no chunk changes again
Quiescent ==
    /\ \A t \in Threads : tpc[t] \in {"idle", "returned"}
    /\ \A w \in Workers : queue[w] = << >>
    /\ Cursor = << >>

\* C8: when no transcription call has failed, every chunk of a sequence that
\* was skipped on a claim conflict is eventually marked transcribed; so it is
\* marked by the time the system is quiescent, for nothing changes after.
C8_SkippedEventuallyTranscribed ==
    (Quiescent /\ failures = 0) =>
        \A t \in Threads :
            status[t] = "skipped" =>
                \A c \in Ids(tseq[t]) : transcribed_at[c] # None

MarkedOf(seq) == IF seq.is_partial THEN Ids(seq) \ {last(seq).id} ELSE Ids(seq)

C10_Returned ==
    \A t \in Threads :
        Succeeded(t) =>
            /\ \A c \in MarkedOf(tseq[t]) : transcribed_at[c] # None
            /\ tseq[t].is_partial => transcribed_at[last(tseq[t]).id] = None

C10_Frame ==
    \A c \in Chunks :
        transcribed_at'[c] # transcribed_at[c] =>
            \E t \in Threads :
                /\ tpc[t] = "mark"
                /\ c \in MarkedOf(tseq[t])
                /\ transcribed_at'[c] = Some(now)

\* C10: after process_sequence returns "transcribed" or "empty",
\* transcribed_at is set on every chunk of the sequence, except the last one
\* when is_partial; that last chunk's transcribed_at and that of every chunk
\* outside the sequence are not touched by the invocation.
C10_MarksAllButSeed == []C10_Returned /\ [][C10_Frame]_vars

\* a partial sequence has returned "transcribed" with its first chunk
\* marked, while a chunk outside it is still unmarked
C10_Witness ==
    \E t \in Threads :
        /\ Returned(t, "transcribed")
        /\ tseq[t].is_partial
        /\ MarkedOf(tseq[t]) # {}
        /\ \E c \in Chunks \ Ids(tseq[t]) : transcribed_at[c] = None

\* the list of a scan's sequences changes only when a new scan replaces it or
\* when a thread of the worker takes its first sequence to process_sequence
QueueStep(w) ==
    queue'[w] # queue[w] =>
        \/ wpc[w] = "scan"
        \/ /\ queue'[w] = Tail(queue[w])
           /\ \E t \in Threads :
                 /\ WorkerOf(t) = w
                 /\ tpc[t] # "claim" /\ tpc'[t] = "claim"
                 /\ tseq'[t] = Head(queue[w])

InQueue(w, seq) == \E k \in 1..Len(queue[w]) : queue[w][k] = seq

\* transcribe_sequence is running only under the invocation's own claim
C11_TranscribeOnlyClaimed ==
    \A t \in Threads :
        /\ tpc[t] = "transcribe" => \A c \in Ids(tseq[t]) : holder[c] = Some(t)
        /\ status[t] = "skipped" => tpc[t] = "returned"

\* the step on which claim_sequence returns False
C11_SkipStep ==
    \A t \in Threads :
        (tpc[t] = "claim" /\ tpc'[t] # "claim" /\ modified'[t] # Ids(tseq[t])) =>
            /\ tpc'[t] = "returned" /\ status'[t] = "skipped"
            /\ transcriptions' = transcriptions
            /\ transcribed_at' = transcribed_at
            /\ failures' = failures
            /\ queue' = queue
            /\ ~InQueue(WorkerOf(t), tseq[t])

\* C11: when claim_sequence returns False, process_sequence returns "skipped"
\* with no call of the transcription endpoint, no transcript inserted and no
\* transcribed_at changed, and the sequence is not handed out again in the
\* same scan; transcribe_sequence runs only for a sequence whose chunks the
\* same invocation has claimed.
C11_SkippedDoesNothing ==
    /\ []C11_TranscribeOnlyClaimed
    /\ [][C11_SkipStep /\ \A w \in Workers : QueueStep(w)]_vars

\* a claim has failed without modifying a chunk, and sequences of the same
\* scan are still to come
C11_Witness ==
    \E t \in Threads :
        /\ Returned(t, "skipped")
        /\ modified[t] = {}
        /\ queue[WorkerOf(t)] # << >>

\* a worker leaves a scan only when all its sequences have been handed out
C12_NothingLeftBehind ==
    \A w \in Workers : wpc[w] # "run" => queue[w] = << >>

\* the step on which process_sequence returns "error"
C12_ErrorStep ==
    \A t \in Threads :
        (tpc[t] = "release" /\ tpc'[t] # "release") =>
            /\ tpc'[t] = "returned" /\ status'[t] = "error"
            /\ wpc'[WorkerOf(t)] = "run"
            /\ queue' = queue

Range(q) == {q[k] : k \in 1..Len(q)}

\* the step is an iteration of the for loop, on the chunk TheChunk
Observed == Len(g_stream') = Len(g_stream) + 1

TheChunk == g_stream'[Len(g_stream')]

\* the sequences the step yields, in order
NewlyYielded == SubSeq(g_out', Len(g_out) + 1, Len(g_out'))

\* seq's start is more than ten minutes later than the chunk's
TooOld(seq, chunk) == seq.chunks[Len(seq.chunks)].start - chunk.start > StaleSeconds

LoneContinuation(seq) == seq.is_continuation /\ Len(seq.chunks) = 1

\* the open sequence seq is of the chunk's recording, survives the staleness
\* flush, and the chunk's index does not continue it
Breaks(seq, chunk) ==
    /\ seq.original_id = chunk.original_id
    /\ ~TooOld(seq, chunk)
    /\ seq.chunks[Len(seq.chunks)].index - 1 # chunk.index

C13_Step ==
    Observed =>
        \A seq \in Range(sequences_by_id) :
            Breaks(seq, TheChunk) =>
                /\ seq \in Range(NewlyYielded)
                /\ \E fresh \in Range(sequences_by_id') :
                      /\ fresh.original_id = TheChunk.original_id
                      /\ fresh.chunks = <<TheChunk>>

\* C13: when the observed chunk's recording has an open sequence and the
\* chunk's index is not that sequence's min_index - 1, the open sequence is
\* yielded at once and a new sequence holding only the observed chunk is
\* started for the recording.
C13_DiscontinuityStartsNew == [][C13_Step]_vars

C14_Step ==
    Observed =>
        \A seq \in Range(sequences_by_id) :
            /\ TooOld(seq, TheChunk) =>
                  /\ seq \notin Range(sequences_by_id')
                  /\ LoneContinuation(seq) => seq \notin Range(NewlyYielded)
                  /\ ~LoneContinuation(seq) => seq \in Range(NewlyYielded)
            /\ (~TooOld(seq, TheChunk) /\ seq.original_id # TheChunk.original_id) =>
                  /\ seq \in Range(sequences_by_id')
                  /\ seq \notin Range(NewlyYielded)

\* C14: on each observed chunk, every open sequence, of any recording, whose
\* start is more than 10 minutes later than the chunk's start leaves the
\* tracking map; it is yielded, unless it is a continuation holding only its
\* seed chunk, which is dropped unyielded.  Open sequences of other
\* recordings that are not that old stay in the map, unyielded.
C14_StaleFlushed == [][C14_Step]_vars

\* the continuation of a yielded partial sequence was dropped unyielded (its
\* seed chunk is in no other sequence), and an open sequence whose start is
\* exactly ten minutes later than the last chunk's was kept
C14_Witness ==
    /\ g_pc = "loop"
    /\ g_stream # << >>
    /\ \E k \in 1..Len(g_out) :
          /\ g_out[k].is_partial
          /\ TooOld(g_out[k], g_stream[Len(g_stream)])
          /\ \A j \in 1..Len(g_out) : j # k => last(g_out[k]) \notin Range(g_out[j].chunks)
          /\ \A seq \in Range(sequences_by_id) : last(g_out[k]) \notin Range(seq.chunks)
    /\ \E seq \in Range(sequences_by_id) :
          start(seq) - g_stream[Len(g_stream)].start = StaleSeconds

\* the open sequences the chunk can be appended to
Appendable(chunk) ==
    {seq \in Range(sequences_by_id) :
        seq.original_id = chunk.original_id /\ ~TooOld(seq, chunk)}

C15_Step ==
    (Observed /\ \A seq \in Appendable(TheChunk) : ~Breaks(seq, TheChunk)) =>
        LET chunk == TheChunk
            open == Appendable(chunk)
            grown == IF open = {} THEN <<chunk>>
                     ELSE Append((CHOOSE seq \in open : TRUE).chunks, chunk)
            cont == open # {} /\ (CHOOSE seq \in open : TRUE).is_continuation
        IN  Len(grown) >= g_maxlen =>
                /\ NewlyYielded # << >>
                /\ NewlyYielded[Len(NewlyYielded)] =
                      [original_id |-> chunk.original_id, chunks |-> grown,
                       is_partial |-> TRUE, is_continuation |-> cont]
                /\ {seq \in Range(sequences_by_id') : seq.original_id = chunk.original_id}
                      = {[original_id |-> chunk.original_id, chunks |-> <<chunk>>,
                          is_partial |-> FALSE, is_continuation |-> TRUE]}

\* C15: when appending a chunk brings a sequence to max_sequence_length
\* chunks or more, the sequence is yielded at once with is_partial = TRUE,
\* and the tracking map then holds for the recording a fresh sequence with
\* is_continuation = TRUE whose only chunk is the chunk just appended.
C15_CapYieldsPartial == [][C15_Step]_vars

\* the last iteration capped a sequence of two chunks: it is the last
\* sequence yielded, and the map holds the continuation seeded with its last
\* chunk
C15_Witness ==
    /\ g_pc = "loop"
    /\ g_maxlen = 2
    /\ g_out # << >>
    /\ LET seq == g_out[Len(g_out)]
       IN  /\ seq.is_partial
           /\ Len(seq.chunks) = 2
           /\ last(seq) = g_stream[Len(g_stream)]
           /\ \E open \in Range(sequences_by_id) :
                 open.is_continuation /\ open.chunks = <<last(seq)>>

\* C16: for a non-null limit L, one call of get_speech_sequences yields at
\* most L sequences in all, whatever the chunk stream.
C16_AtMostLimit == g_limit # None => Len(g_out) <= Val(g_limit)

\* the step that follows the exhaustion of the cursor (lines 150-156)
AfterExhaustion == g_pc = "exhausted" /\ g_pc' = "done"

\* C17: when the chunk scan is exhausted, every sequence still in the
\* tracking map is yielded, a continuation holding only its seed chunk
\* included.
C17_ExhaustedFlushesAll ==
    [][AfterExhaustion => g_out' = g_out \o sequences_by_id]_vars

\* C17, amended: when the chunk scan is exhausted and the limit is null or
\* not yet reached by the count of yielded sequences, every sequence still
\* in the tracking map is yielded, in the map's order, a continuation holding
\* only its seed chunk included; when the limit is reached, none is yielded.
C17_ExhaustedFlushesAllUnderLimit ==
    [][AfterExhaustion =>
          IF g_limit = None \/ yielded < Val(g_limit)
          THEN g_out' = g_out \o sequences_by_id
          ELSE g_out' = g_out]_vars

\* the call is over, its terminal flush has yielded sequences (they are not
\* counted in yielded), the last of them a continuation with its seed only
C17_Witness ==
    /\ g_pc = "done"
    /\ Len(g_out) > yielded
    /\ LoneContinuation(g_out[Len(g_out)])

\* the cursor handed out three chunks of one recording, indices 2, 1, 0,
\* each starting one chunk length before the previous one
ThreeChunkRun ==
    /\ Len(g_stream) = 3
    /\ \A k \in 1..3 :
          /\ g_stream[k].original_id = g_stream[1].original_id
          /\ g_stream[k].index = 3 - k
          /\ g_stream[k].start = g_stream[1].start - (k - 1) * CHUNK_MAX_LEN

\* C19: for three chunks of one recording with indices 2, 1, 0 and starts
\* T+20s, T+10s, T, scanned newest first with max_sequence_length = 10, the
\* call yields exactly one sequence: the three chunks in the order 2, 1, 0,
\* with is_partial = FALSE.
C19_ThreeChunksOneSequence ==
    (g_pc = "done" /\ ThreeChunkRun /\ g_maxlen = 10) =>
        g_out = <<[original_id |-> g_stream[1].original_id, chunks |-> g_stream,
                   is_partial |-> FALSE, is_continuation |-> FALSE]>>

C19_Witness ==
    /\ g_pc = "done"
    /\ ThreeChunkRun
    /\ g_maxlen = 10
    /\ g_limit = Some(1)
    /\ Len(g_out) = 1

\* C20: for the same three chunks with max_sequence_length = 2, the first
\* sequence yielded is [idx2, idx1] with is_partial = TRUE, and the second
\* is a continuation (is_continuation = TRUE) whose first chunk is idx1.
C20_ThreeChunksCapTwo ==
    (g_pc = "done" /\ ThreeChunkRun /\ g_maxlen = 2) =>
        /\ Len(g_out) >= 2
        /\ g_out[1] = [original_id |-> g_stream[1].original_id,
                       chunks |-> <<g_stream[1], g_stream[2]>>,
                       is_partial |-> TRUE, is_continuation |-> FALSE]
        /\ g_out[2].is_continuation
        /\ g_out[2].chunks[1] = g_stream[2]

C20_Witness ==
    /\ g_pc = "done"
    /\ ThreeChunkRun
    /\ g_maxlen = 2
    /\ g_limit = None
    /\ Len(g_out) = 3
    /\ g_out[2].chunks = <<g_stream[2], g_stream[3]>>

(***************************************************************************)
(* Properties of the scan's filter (SpecStore).                            *)
(***************************************************************************)
AllTranscribed == \A c \in Chunks : transcribed_at[c] # None

\* C18: over a store in which every chunk has transcribed_at set,
\* get_speech_sequences yields no sequence, however many times it is run.
C18_NothingFromTranscribedStore ==
    AllTranscribed => \A w \in Workers : queue[w] = << >>

\* the generator has run over a store whose chunks are all transcribed and
\* all unclaimed
C18_Witness ==
    /\ AllTranscribed
    /\ \A c \in Chunks : processing_by[c] = None
    /\ \E w \in Workers : max_workers[w] > 0 /\ wpc[w] # "scan"

(***************************************************************************)
(* Properties of transcribe_sequence (Spec, SpecAsm).                      *)
(***************************************************************************)
\* the segments left by the filter are none, or all of them lonely
OnlyLonelyLeft(segments) ==
    LET kept == filtered_segments(segments)
    IN  \/ kept = << >>
        \/ \A i \in 1..Len(kept) : strip(kept[i]) \in remove_if_lonely

\* what transcribe_sequence returns for those answers
LonelyReturns ==
    {transcribe_result(segments) : segments \in {s \in Responses : OnlyLonelyLeft(s)}}

C21_Step ==
    \A t \in Threads :
        tpc[t] = "transcribe" /\ tpc'[t] # "transcribe" =>
            \A r \in LonelyReturns :
                Transcribed(t, r) =>
                    /\ transcriptions' = transcriptions
                    /\ status'[t] = "empty"
                    /\ tpc'[t] \in {"mark", "returned"}
                    /\ todo'[t] = MarkedOf(tseq[t])

C21_Returned ==
    \A t \in Threads :
        tpc[t] = "returned" /\ status[t] = "empty" =>
            \A c \in MarkedOf(tseq[t]) : transcribed_at[c] # None

\* C21: when the segment filter leaves nothing, or only segments whose
\* stripped text is in remove_if_lonely, transcribe_sequence inserts no
\* transcript, and process_sequence marks the chunks transcribed and returns
\* "empty".
C21_NoSpeechStillMarks == []C21_Returned /\ [][C21_Step]_vars

\* an invocation has returned "empty" with its chunks marked and no
\* transcript in the collection
C21_Witness ==
    \E t \in Threads :
        /\ tpc[t] = "returned"
        /\ status[t] = "empty"
        /\ MarkedOf(tseq[t]) # {}
        /\ \A c \in MarkedOf(tseq[t]) : transcribed_at[c] # None
        /\ transcriptions = {}

\* C22: the files of the request are the sequence's chunks in chronological
\* order: the i-th file (from 0) is the chunk of index min_index + i, so
\* none is left out and none repeated.
C22_FilesAscending ==
    \A k \in 1..Len(g_out) :
        LET files == request_files(g_out[k])
        IN  /\ Len(files) = Len(g_out[k].chunks)
            /\ \A i \in 1..Len(files) : files[i].index = min_index(g_out[k]) + (i - 1)
            /\ \A i \in 1..(Len(files) - 1) : files[i].start < files[i + 1].start
            /\ {files[i] : i \in 1..Len(files)} = Range(g_out[k].chunks)

\* a sequence of three chunks has been yielded
C22_Witness ==
    \E k \in 1..Len(g_out) :
        /\ Len(g_out[k].chunks) = 3
        /\ request_files(g_out[k])[1].index + 2 = request_files(g_out[k])[3].index

(***************************************************************************)
(* Properties of AudioChunkReader and fetch_audio (SpecRead).              *)
(***************************************************************************)
\* the step is an iteration of the loop of read
ChunkPulled == reader.pc = "loop" /\ reader' # reader /\ ~Covered /\ reader.chunks # << >>

\* the chunk the iteration pulls, and what it decodes to
Pulled == Head(reader.chunks)

PulledAudio == read_codec(Pulled.data)

C23_Step ==
    ChunkPulled /\ Pulled.start > Val(reader.cursor) =>
        LET g == Pulled.start - Val(reader.cursor)
            silence == zeros(RoundHalfEven(g * sample_rate, Resolution))
        IN  /\ reader'.pc = "loop"
            /\ concatenate(reader'.result) =
                 concatenate(reader.result) \o silence \o PulledAudio

\* C23: when the chunk pulled starts g > 0 seconds after the cursor, the
\* output grows by exactly round(g * sample_rate) zero samples followed by
\* the chunk's samples.
C23_GapFilledWithRoundedSilence == [][C23_Step]_vars

C24_Step ==
    ChunkPulled /\ reader.result # << >> =>
        LET o == -diff_of(Pulled, Val(reader.cursor))
            before == concatenate(reader.result)
            kept == Len(before) - o
        IN  o > 0 /\ o <= Len(reader.result[Len(reader.result)]) /\ o <= Len(PulledAudio) =>
                /\ reader'.pc = "loop"
                /\ concatenate(reader'.result) =
                     SubSeq(before, 1, kept) \o
                     [i \in 1..o |-> Mean(before[kept + i], PulledAudio[i])] \o
                     From(PulledAudio, o)

\* C24: when the chunk pulled overlaps the previous one by o samples, the o
\* samples at the boundary are the means of the last o samples of the
\* previous chunk and the first o of this one, every other sample is kept,
\* and the output is o shorter than the concatenation of the two.
C24_OverlapBlended == [][C24_Step]_vars

\* C25: when the loop of read ends with the cursor at or past start +
\* duration, read returns at least duration * sample_rate samples (here: at
\* least the whole samples in that number, which the claim implies).
C25_ReadCoversDuration ==
    reader.pc \in {"returned", "fetched"} /\ Covered =>
        Len(reader.returned) >= Trunc(reader.duration * sample_rate, Resolution)

\* C26: when the chunks run out before the duration is covered, no chunk at
\* all included, read does not fail: it returns the samples it has.
C26_ShortReadReturns ==
    reader.pc = "raised" /\ reader.at # "__init__" =>
        ~(reader.chunks = << >> /\ ~Covered)

\* C27: fetch_audio returns at most int(duration * sample_rate) samples,
\* and exactly that many when the loop of read ended with the duration
\* covered.
C27_FetchedExactly ==
    reader.pc = "fetched" =>
        /\ Len(reader.fetched) <= Trunc(reader.duration * sample_rate, Resolution)
        /\ Covered => Len(reader.fetched) = Trunc(reader.duration * sample_rate, Resolution)

\* C28: a start_at that is neither a number nor a datetime makes the
\* constructor raise ValueError with no query made; otherwise the cursor
\* is the instant start_at denotes (for a float, the nearest tick).
C28_ConstructorChecksStartAt ==
    /\ reader.pc \notin {"idle", "new"} /\ reader.start_at.type \notin {"float", "datetime"} =>
          /\ reader.pc = "raised"
          /\ reader.raised = "ValueError"
          /\ reader.queries = 0
          /\ reader.cursor = None
    /\ reader.pc = "ready" \/ (reader.pc = "raised" /\ reader.raised = "NameError") =>
          /\ reader.start_at.type = "datetime" => reader.cursor = Some(reader.start_at.value)
          /\ reader.start_at.type = "float" =>
                /\ reader.cursor # None
                /\ 2 * Val(reader.cursor) - reader.start_at.value \in {-1, 0, 1}

\* the constructor has refused a start_at of another type
C28_Witness ==
    /\ reader.pc = "raised"
    /\ reader.start_at.type = "str"
    /\ reader.raised = "ValueError"
    /\ reader.queries = 0

(***************************************************************************)
(* Properties of ingestion (SpecIngest).                                   *)
(***************************************************************************)
\* C29: no two audio chunk documents have the same (original_id, index),
\* also after an ingestion that failed part-way is followed by another
\* ingestion of the same source.
C29_ChunkKeysUnique ==
    \A j, k \in 1..Len(ingest.audio_chunks) :
        j # k =>
            <<ingest.audio_chunks[j].original_id, ingest.audio_chunks[j].index>> #
            <<ingest.audio_chunks[k].original_id, ingest.audio_chunks[k].index>>

(***************************************************************************)
(* Properties of server_side_cursor_find (SpecFind).                       *)
(***************************************************************************)
\* the number of the first empty answer of the gateway
FirstEmpty ==
    CHOOSE n \in 1..(Len(finder.answers) + 1) :
        /\ Answer(n) = << >>
        /\ \A k \in 1..(n - 1) : Answer(k) # << >>

\* the documents of the answers 1..n, in order
RECURSIVE DocsUpTo(_)
DocsUpTo(n) == IF n = 0 THEN << >> ELSE DocsUpTo(n - 1) \o Answer(n)

\* C30: server_side_cursor_find creates one cursor, calls getMore with that
\* cursor's id only, yields the documents of every non-empty answer in
\* order, and calls getMore no more after the first empty answer.
C30_OneCursorUntilEmptyBatch ==
    finder.pc # "idle" =>
        /\ finder.created = (IF finder.pc = "start" THEN 0 ELSE 1)
        /\ \A k \in 1..Len(finder.getMore) : finder.getMore[k] = finder.issued
        /\ Len(finder.getMore) <= FirstEmpty
        /\ finder.pc \in {"fetch", "yield"} =>
              finder.out \o finder.docs = DocsUpTo(Len(finder.getMore))
        /\ finder.pc = "done" =>
              /\ Len(finder.getMore) = FirstEmpty
              /\ finder.out = DocsUpTo(FirstEmpty - 1)

\* the generator has ended at an empty answer that came after two answers
\* with documents and before another one with documents
C30_Witness ==
    /\ finder.pc = "done"
    /\ Len(finder.answers) = 3
    /\ FirstEmpty = 3
    /\ Len(finder.out) > 2
    /\ Len(finder.getMore) = 3

(***************************************************************************)
(* The loop invariant of AudioChunkReader.read (SpecRead).                 *)
(***************************************************************************)
\* samples buffered in result
Buffered == Len(concatenate(reader.result))

\* C35: at the end of every iteration of the loop of read, the samples
\* buffered in result number (cursor - start) * sample_rate.
C35_BufferTracksCursor ==
    reader.pc = "loop" =>
        Buffered * Resolution = (Val(reader.cursor) - Val(reader.start)) * sample_rate

(***************************************************************************)
(* Bounds on the yielded sequences (SpecAsm).                              *)
(***************************************************************************)
\* C36: every sequence get_speech_sequences yields holds at least 1 and at
\* most max_sequence_length chunks.
C36_LengthWithinCap ==
    \A k \in 1..Len(g_out) :
        /\ Len(g_out[k].chunks) >= 1
        /\ Len(g_out[k].chunks) <= g_maxlen

\* C39: in every yielded sequence the starts of consecutive chunks differ
\* by at most 600 seconds.
C39_ConsecutiveStartsWithinStale ==
    \A k \in 1..Len(g_out) :
        \A j \in 1..(Len(g_out[k].chunks) - 1) :
            g_out[k].chunks[j].start - g_out[k].chunks[j + 1].start <= StaleSeconds

\* a yielded sequence holds two consecutive chunks exactly 600 seconds apart
C39_Witness ==
    \E k \in 1..Len(g_out) :
        \E j \in 1..(Len(g_out[k].chunks) - 1) :
            g_out[k].chunks[j].start - g_out[k].chunks[j + 1].start = StaleSeconds

(***************************************************************************)
(* Properties of the segment filter (SpecFilter).                          *)
(***************************************************************************)
\* the segment's stripped text is empty, is an entry of known_errors, or
\* starts and ends with an asterisk
Artifact(segment) ==
    LET text == strip(segment)
    IN  \/ text = << >>
        \/ text \in known_errors
        \/ Head(text) = "*" /\ text[Len(text)] = "*"

\* C33: the transcript stored holds the returned segments less those whose
\* stripped text is empty, is in known_errors or starts and ends with an
\* asterisk, in their original order.
C33_StoredSegmentsFiltered ==
    answer.pc = "inserted" =>
        Val(answer.stored) = SelectSeq(answer.segments, LAMBDA segment : ~Artifact(segment))

(***************************************************************************)
(* Properties of process_sequence over a store that may raise (SpecFail).  *)
(***************************************************************************)
\* C32: an exception raised by claim_sequence or by mark_as_transcribed
\* leaves process_sequence; no invocation returns "error" for it.
C32_StoreFailureNotReportedAsError ==
    \A t \in Threads :
        Returned(t, "error") => caught[t] = Some("transcribe_sequence")

\* process_sequence has called release_sequence, whose update has reached no
\* document yet
ReleaseCalled(t) == tpc[t] = "release" /\ todo[t] = Ids(tseq[t])

\* processing_by of chunk c was set by the running invocation of thread t
HeldByInvocation(t, c) == holder[c] = Some(t) /\ c \in modified[t]

\* C37: when process_sequence calls release_sequence, every chunk of the
\* sequence that is claimed was claimed by this very invocation.
C37_ReleaseOnlyHeldChunks ==
    \A t \in Threads :
        ReleaseCalled(t) =>
            \A c \in Ids(tseq[t]) : processing_by[c] # None => HeldByInvocation(t, c)

(***************************************************************************)
(* Properties of reset_orphaned_chunks (SpecReset).                        *)
(***************************************************************************)
\* C34: a chunk whose transcribed_at is cleared by reset_orphaned_chunks
\* matches the filter of get_speech_sequences afterwards, and so is in the
\* documents the next scan reads.
C34_ResetChunksEligible ==
    [][\A c \in Chunks :
          (transcribed_at[c] # None /\ transcribed_at'[c] = None) => Eligible(c)']_vars

(***************************************************************************)
(* Properties of the EJson codec (SpecEJson).                              *)
(***************************************************************************)
\* Python's ==: aware datetimes are equal when they are the same instant,
\* lists and dicts when their members are, everything else by value
RECURSIVE py_eq(_, _)
py_eq(a, b) ==
    IF a.type # b.type THEN FALSE
    ELSE CASE a.type = "datetime" ->
                /\ a.hour - a.utcoffset = b.hour - b.utcoffset
                /\ a.microsecond = b.microsecond
           [] a.type \in {"list", "dict"} ->
                /\ DOMAIN a.v = DOMAIN b.v
                /\ \A k \in DOMAIN a.v : py_eq(a.v[k], b.v[k])
           [] a.type = "ValueError" -> FALSE
           [] OTHER -> a.v = b.v

\* C31: the value decoded from the encoding of a value equals that value:
\* timestamps, byte strings and object identifiers, alone or inside
\* documents and lists.
C31_RoundTrip ==
    ejson.pc = "decoded" => py_eq(Val(ejson.back), ejson.obj)

\* a UTC timestamp with a fraction, in a list inside a document, has made
\* the round trip through the "Z" form
C31_Witness ==
    /\ ejson.pc = "decoded"
    /\ ejson.obj.type = "dict"
    /\ ejson.obj.v["field"].type = "list"
    /\ \E i \in DOMAIN ejson.obj.v["field"].v :
           LET x == ejson.obj.v["field"].v[i]
           IN  x.type = "datetime" /\ x.utcoffset = 0 /\ x.microsecond # 0
    /\ \E i \in DOMAIN ejson.obj.v["field"].v :
           ejson.obj.v["field"].v[i].type = "bytes"

(***************************************************************************)
(* Termination of process_speech_sequences (SpecLive).                     *)
(***************************************************************************)
\* C38: a worker started with max_workers = 1 and no limit, over a store that
\* gets no new chunks and with every transcription succeeding, leaves its
\* loop: some scan processes no sequence and the function returns.
C38_SingleWorkerTerminates ==
    \A w \in Workers : max_workers[w] = 1 => <>(wpc[w] = "done")

\* both single-thread workers have returned, after transcribing something
C38_Witness ==
    /\ \A w \in Workers : max_workers[w] = 1 /\ wpc[w] = "done"
    /\ \E c \in Chunks : transcribed_at[c] # None

====
